---- MODULE Spec2Model ----
(***************************************************************************)
(* A model of pydex's DexFile (pydex/dalvik/executable.py) and of the      *)
(* dalvik models it builds (pydex/dalvik/models/dalvik.py).                *)
(*                                                                         *)
(* A DexFile is a view over an immutable byte blob.  The state of the      *)
(* model is the state of one view: its bytes, its progress mask, its       *)
(* stream (position and byte order), its header and its five pools.  Every *)
(* public method is one action; the methods themselves are operators from  *)
(* a view record to a result record (the view after the call, and either   *)
(* the returned value or the exception raised).                            *)
(*                                                                         *)
(* Bytes are the naturals 0..255, a byte string is a sequence of bytes,    *)
(* and file offset k is element k + 1 of the sequence.                     *)
(*                                                                         *)
(* A 32-bit unsigned value v is held as the integer with the same 32 bits  *)
(* in two's complement: v itself below 2^31 and v - 2^32 from 2^31 on.     *)
(* Equality and the remainder by 4 are the same on both readings; the      *)
(* unsigned comparisons of the code are ULt and UGe below.                 *)
(***************************************************************************)
EXTENDS Integers, Sequences, FiniteSets, TLC

VARIABLES
    data,           \* DexFile.data: the raw bytes of the dex file
    no_lazy_load,   \* DexFile.no_lazy_load
    section_flags,  \* DexFile.section_flags: the progress mask
    stream,         \* DexFile.stream: [pos, byteorder]
    header,         \* DexFile.header: None or a DalvikHeaderItem
    strings,        \* DexFile.strings
    types,          \* DexFile.types
    protos,         \* DexFile.protos
    fields,         \* DexFile.fields
    methods,        \* DexFile.methods
    last,           \* the last public call: [op, arg, out]
    fixture,        \* which input file the view was built over (history)
    phase,          \* "fresh", "first" (one call made) or "later" (history)
    only_pool_ok,   \* every call so far was a pool parser that returned (history)
    on_entry,       \* the stream position and the mask the last call found (history)
    tasks           \* the load calls running in threads: their position and locals

vars == << data, no_lazy_load, section_flags, stream, header, strings, types,
           protos, fields, methods, last, fixture, phase, only_pool_ok,
           on_entry, tasks >>

-----------------------------------------------------------------------------
(* Program constants.                                                      *)

FLAG_PARSED_HEADER == 1
FLAG_PARSED_STRINGS == 2
FLAG_PARSED_TYPES == 4
FLAG_PARSED_PROTOS == 8
FLAG_PARSED_FIELDS == 16
FLAG_PARSED_METHODS == 32

INVALID_MAGIC_BYTES == 0
INVALID_CHECKSUM == 1
INVALID_ENDIAN_TAG == 2
INVALID_HEADER_SIZE == 3
INVALID_PROTOS_SIZE == 4
INVALID_TYPES_SIZE == 5
INVALID_DATA_SIZE == 6

HeaderStructSize == 112        \* DalvikHeader.struct_size, 0x70
StringIDStructSize == 4        \* DalvikStringID.struct_size
TypeIDStructSize == 4          \* DalvikTypeID.struct_size
ProtoIDStructSize == 12        \* DalvikProtoID.struct_size
FieldStructSize == 8           \* DalvikField.struct_size
MethodStructSize == 8          \* DalvikMethod.struct_size

TagBig == 305419896            \* 0x12345678
TagLittle == 2018915346        \* 0x78563412
SizeLimit == 65535             \* 0xFFFF
AdlerMod == 65521              \* zlib.adler32's modulus
NoCode == 0 - 1                \* an exception that carries no header code

LITTLE_ENDIAN == "LITTLE_ENDIAN"
BIG_ENDIAN == "BIG_ENDIAN"

None == [none |-> TRUE]

-----------------------------------------------------------------------------
(* Bytes, slices and integer reads (datastream.DeserializingStream).       *)

Min(a, b) == IF a < b THEN a ELSE b

\* The bytes of d at offsets a .. b-1, cut at the end of d; none when a, as an
\* unsigned offset, is at or past the end.
Slice(d, a, b) ==
    IF a < 0 \/ a >= Len(d) \/ b <= a THEN << >>
    ELSE SubSeq(d, a + 1, Min(b, Len(d)))

\* The offset k bytes past the 32-bit offset base.
At(base, k) == IF base < 0 THEN base ELSE base + k

RECURSIVE BitAnd(_, _)
BitAnd(a, b) ==
    IF a = 0 \/ b = 0 THEN 0
    ELSE (a % 2) * (b % 2) + 2 * BitAnd(a \div 2, b \div 2)

RECURSIVE BitOr(_, _)
BitOr(a, b) ==
    IF a = 0 THEN b
    ELSE IF b = 0 THEN a
    ELSE (IF a % 2 = 1 \/ b % 2 = 1 THEN 1 ELSE 0) + 2 * BitOr(a \div 2, b \div 2)

\* Unsigned a < b and a >= b for 32-bit values and a natural b below 2^31.
ULt(a, b) == a >= 0 /\ a < b
UGe(a, b) == ~ULt(a, b)

\* Whether "for i in range(n)" is over at the natural i, n a 32-bit value.
RangeDone(i, n) == ~ULt(i, n)

\* int.from_bytes(b) with Python's default byte order, "big", for up to four
\* bytes.
RECURSIVE IntFromBytes(_)
IntFromBytes(b) ==
    IF Len(b) = 0 THEN 0
    ELSE IF Len(b) = 4 /\ b[1] >= 128
         THEN (b[1] - 256) * 16777216 + IntFromBytes(SubSeq(b, 2, 4))
    ELSE 256 * IntFromBytes(SubSeq(b, 1, Len(b) - 1)) + b[Len(b)]

Reverse(s) == [i \in 1..Len(s) |-> s[Len(s) + 1 - i]]

\* Whether n bytes can be read at offset off.
CanRead(d, off, n) == off >= 0 /\ off <= Len(d) /\ off + n <= Len(d)

\* stream.read_uint32() / read_uint16() at offset off under byte order bo.
ReadUInt(d, off, n, bo) ==
    LET b == Slice(d, off, off + n)
    IN IntFromBytes(IF bo = BIG_ENDIAN THEN b ELSE Reverse(b))

read_uint32(d, off, bo) == ReadUInt(d, off, 4, bo)
read_uint16(d, off, bo) == ReadUInt(d, off, 2, bo)

\* zlib.adler32(b).  With n = len(b), the low half is 1 + sum of b[i] and the
\* high half is n + sum of (n - i + 1) * b[i], both modulo 65521: the closed
\* form of the running sums a += b[i]; s += a.  AdlerSums gives the two sums
\* over b[lo..hi] by halving the range.
RECURSIVE AdlerSums(_, _, _)
AdlerSums(b, lo, hi) ==
    IF lo > hi THEN [a |-> 0, s |-> 0]
    ELSE IF lo = hi
         THEN [a |-> b[lo], s |-> ((Len(b) - lo + 1) * b[lo]) % AdlerMod]
    ELSE LET mid == (lo + hi) \div 2
             l == AdlerSums(b, lo, mid)
             r == AdlerSums(b, mid + 1, hi)
         IN [a |-> (l.a + r.a) % AdlerMod, s |-> (l.s + r.s) % AdlerMod]

adler32(b) ==
    LET t == AdlerSums(b, 1, Len(b))
        a == (1 + t.a) % AdlerMod
        s == (Len(b) + t.s) % AdlerMod
    IN IF s >= 32768 THEN (s - 65536) * 65536 + a ELSE s * 65536 + a

-----------------------------------------------------------------------------
(* Results of a call: the view after it, and a value or an exception.      *)

Ok(self, val) ==
    [self |-> self, ok |-> TRUE, val |-> val, exc |-> "", code |-> NoCode]

Raise(self, exc, code) ==
    [self |-> self, ok |-> FALSE, val |-> << >>, exc |-> exc, code |-> code]

InvalidDalvikHeader(self, code) == Raise(self, "InvalidDalvikHeader", code)

\* What the caller sees of a result.
Outcome(r) == [ok |-> r.ok, val |-> r.val, exc |-> r.exc, code |-> r.code]

SetFlagAssign(flags, flag) == flag

\* self.section_flags |= flag
SetFlag(flags, flag) == BitOr(flags, flag)

HasFlag(flags, flag) == BitAnd(flags, flag) # 0

\* The end of a pool parser whose loop gave r: "self.section_flags |= flag"
\* and the return of the pool, or the exception of the loop.
Parsed(flag, r) ==
    IF ~r.ok THEN r
    ELSE Ok([r.self EXCEPT !.section_flags = SetFlag(@, flag)], r.val)

-----------------------------------------------------------------------------
(* DalvikHeaderItem.from_raw_item and DexFile.parse_header.                *)

IsDigit(b) == b >= 48 /\ b <= 57

\* int(raw_item.magic[4:7]) for three ASCII digits; any other bytes used by
\* the inputs of this model (letters) make int() raise ValueError.
VersionIsInt(magic) == IsDigit(magic[5]) /\ IsDigit(magic[6]) /\ IsDigit(magic[7])
VersionOf(magic) == 100 * (magic[5] - 48) + 10 * (magic[6] - 48) + (magic[7] - 48)

\* The byte order from_raw_item derives from the endian tag it was given
\* ("" when it raises).
HeaderByteOrder(endian_tag) ==
    IF endian_tag = TagBig THEN LITTLE_ENDIAN
    ELSE IF endian_tag = TagLittle THEN BIG_ENDIAN
    ELSE ""

header_from_raw_item(self, raw_item) ==
    IF ~VersionIsInt(raw_item.magic) THEN Raise(self, "ValueError", NoCode)
    ELSE IF HeaderByteOrder(raw_item.endian_tag) = ""
         THEN InvalidDalvikHeader(self, INVALID_ENDIAN_TAG)
    ELSE Ok(self, [raw_item |-> raw_item,
                   version |-> VersionOf(raw_item.magic),
                   checksum |-> raw_item.checksum,
                   signature |-> raw_item.signature,
                   file_size |-> raw_item.file_size,
                   byte_order |-> HeaderByteOrder(raw_item.endian_tag)])

\* The u32 header field at offset off, read through a clone of the stream:
\* the clone starts at the stream's position and has its byte order.
HeaderField(self, off) ==
    read_uint32(self.data, self.stream.pos + off, self.stream.byteorder)

\* The DalvikHeader parse_header reads.
RawHeader(self) ==
    [offset |-> 0, size |-> HeaderField(self, 36),
     data |-> Slice(self.data, 0, HeaderStructSize),
     magic |-> Slice(self.data, self.stream.pos, self.stream.pos + 8),
     checksum |-> HeaderField(self, 8),
     signature |-> Slice(self.data, self.stream.pos + 12, self.stream.pos + 32),
     file_size |-> HeaderField(self, 32), header_size |-> HeaderField(self, 36),
     endian_tag |-> HeaderField(self, 40), link_size |-> HeaderField(self, 44),
     link_off |-> HeaderField(self, 48), map_off |-> HeaderField(self, 52),
     string_ids_size |-> HeaderField(self, 56),
     string_ids_off |-> HeaderField(self, 60),
     type_ids_size |-> HeaderField(self, 64), type_ids_off |-> HeaderField(self, 68),
     proto_ids_size |-> HeaderField(self, 72),
     proto_ids_off |-> HeaderField(self, 76),
     field_ids_size |-> HeaderField(self, 80),
     field_ids_off |-> HeaderField(self, 84),
     method_ids_size |-> HeaderField(self, 88),
     method_ids_off |-> HeaderField(self, 92),
     class_defs_size |-> HeaderField(self, 96),
     class_defs_off |-> HeaderField(self, 100),
     data_size |-> HeaderField(self, 104), data_off |-> HeaderField(self, 108)]

MagicPrefix == << 100, 101, 120, 10 >>       \* b"dex\x0A"

\* The validation of parse_header, in the order of the code: "" when the
\* header passes, else the code raised.
HeaderCheckNoNul(self, h) ==
    IF SubSeq(h.magic, 1, 4) # MagicPrefix THEN INVALID_MAGIC_BYTES
    ELSE IF h.checksum # adler32(Slice(self.data, 12, Len(self.data)))
         THEN INVALID_CHECKSUM
    ELSE IF h.header_size # HeaderStructSize THEN INVALID_HEADER_SIZE
    ELSE IF UGe(h.type_ids_size, SizeLimit) THEN INVALID_TYPES_SIZE
    ELSE IF UGe(h.proto_ids_size, SizeLimit) THEN INVALID_PROTOS_SIZE
    ELSE IF h.data_size % 4 # 0 THEN INVALID_DATA_SIZE
    ELSE NoCode

HeaderCheckNoDataSize(self, h) ==
    IF SubSeq(h.magic, 1, 4) # MagicPrefix THEN INVALID_MAGIC_BYTES
    ELSE IF h.magic[8] # 0 THEN INVALID_MAGIC_BYTES
    ELSE IF h.checksum # adler32(Slice(self.data, 12, Len(self.data)))
         THEN INVALID_CHECKSUM
    ELSE IF h.header_size # HeaderStructSize THEN INVALID_HEADER_SIZE
    ELSE IF UGe(h.type_ids_size, SizeLimit) THEN INVALID_TYPES_SIZE
    ELSE IF UGe(h.proto_ids_size, SizeLimit) THEN INVALID_PROTOS_SIZE
    ELSE NoCode

HeaderCheckSizesFirst(self, h) ==
    IF SubSeq(h.magic, 1, 4) # MagicPrefix THEN INVALID_MAGIC_BYTES
    ELSE IF h.magic[8] # 0 THEN INVALID_MAGIC_BYTES
    ELSE IF h.header_size # HeaderStructSize THEN INVALID_HEADER_SIZE
    ELSE IF UGe(h.type_ids_size, SizeLimit) THEN INVALID_TYPES_SIZE
    ELSE IF UGe(h.proto_ids_size, SizeLimit) THEN INVALID_PROTOS_SIZE
    ELSE IF h.data_size % 4 # 0 THEN INVALID_DATA_SIZE
    ELSE IF h.checksum # adler32(Slice(self.data, 12, Len(self.data)))
         THEN INVALID_CHECKSUM
    ELSE NoCode

HeaderCheckProtosFirst(self, h) ==
    IF SubSeq(h.magic, 1, 4) # MagicPrefix THEN INVALID_MAGIC_BYTES
    ELSE IF h.magic[8] # 0 THEN INVALID_MAGIC_BYTES
    ELSE IF h.checksum # adler32(Slice(self.data, 12, Len(self.data)))
         THEN INVALID_CHECKSUM
    ELSE IF h.header_size # HeaderStructSize THEN INVALID_HEADER_SIZE
    ELSE IF UGe(h.proto_ids_size, SizeLimit) THEN INVALID_PROTOS_SIZE
    ELSE IF UGe(h.type_ids_size, SizeLimit) THEN INVALID_TYPES_SIZE
    ELSE IF h.data_size % 4 # 0 THEN INVALID_DATA_SIZE
    ELSE NoCode

HeaderCheck(self, h) ==
    IF SubSeq(h.magic, 1, 4) # MagicPrefix THEN INVALID_MAGIC_BYTES
    ELSE IF h.magic[8] # 0 THEN INVALID_MAGIC_BYTES
    ELSE IF h.checksum # adler32(Slice(self.data, 12, Len(self.data)))
         THEN INVALID_CHECKSUM
    ELSE IF h.header_size # HeaderStructSize THEN INVALID_HEADER_SIZE
    ELSE IF UGe(h.type_ids_size, SizeLimit) THEN INVALID_TYPES_SIZE
    ELSE IF UGe(h.proto_ids_size, SizeLimit) THEN INVALID_PROTOS_SIZE
    ELSE IF h.data_size % 4 # 0 THEN INVALID_DATA_SIZE
    ELSE NoCode

\* The end of parse_header for the DalvikHeader h read and the outcome code
\* of its checks: the HEADER bit is set once the checks pass, before
\* from_raw_item runs.
HeaderChecked(self, h, code) ==
    IF code # NoCode THEN InvalidDalvikHeader(self, code)
    ELSE header_from_raw_item(
             [self EXCEPT !.section_flags = SetFlag(@, FLAG_PARSED_HEADER)], h)

HeaderRead(self, h) == HeaderChecked(self, h, HeaderCheck(self, h))

\* DexFile.parse_header.  The caller stores the header, parse_header does not.
parse_header(self) ==
    IF ~CanRead(self.data, self.stream.pos, HeaderStructSize)
    THEN Raise(self, "EndOfStream", NoCode)
    ELSE HeaderRead(self, RawHeader(self))

\* self.header = self.parse_header()
StoreHeader(r) ==
    IF ~r.ok THEN r ELSE Ok([r.self EXCEPT !.header = r.val], << >>)

\* parse_dex_prologue once the four bytes at offset 40 were read as
\* endian_tag: the stream is at 0 and gets the byte order of the tag.
PrologueWithTag(self, endian_tag) ==
    IF endian_tag # TagBig /\ endian_tag # TagLittle
    THEN InvalidDalvikHeader([self EXCEPT !.stream.pos = 0], INVALID_ENDIAN_TAG)
    ELSE StoreHeader(parse_header(
             [self EXCEPT !.stream =
                 [pos |-> 0,
                  byteorder |-> IF endian_tag = TagBig THEN BIG_ENDIAN
                                ELSE LITTLE_ENDIAN]]))

\* DexFile.parse_dex_prologue: rewind, set the byte order from the endian tag
\* at offset 40, parse and store the header.
parse_dex_prologue(self) ==
    PrologueWithTag(self, IntFromBytes(Slice(self.data, 40, 44)))

-----------------------------------------------------------------------------
(* LEB128 (pydex/util.py, and the stream's read_uleb128).                  *)

\* A Python int of up to MaxBits bits is held as limbs of 16 bits, the least
\* significant first, where the code computes on values that may pass 2^31.
MaxBits == 64
NLimbs == (MaxBits + 15) \div 16

\* The limbs of a natural below 2^31.
IntLimbs(n) ==
    [i \in 1..NLimbs |-> IF i = 1 THEN n % 65536
                         ELSE IF i = 2 THEN n \div 65536 ELSE 0]

\* value >> 7
Shr7(value) ==
    [i \in 1..NLimbs |->
        (value[i] \div 128) + (IF i < NLimbs THEN (value[i + 1] % 128) * 512 ELSE 0)]

\* value >> 8
Shr8(value) ==
    [i \in 1..NLimbs |->
        (value[i] \div 256) + (IF i < NLimbs THEN (value[i + 1] % 256) * 256 ELSE 0)]

\* value == 0
IsZero(value) == \A i \in 1..NLimbs : value[i] = 0

RECURSIVE sizeof_uleb128_Shift8(_)
sizeof_uleb128_Shift8(value) ==
    IF IsZero(Shr8(value)) THEN 1 ELSE 1 + sizeof_uleb128_Shift8(Shr8(value))

\* pydex.util.sizeof_uleb128: "size += 1; value >>= 7" until value == 0.
RECURSIVE sizeof_uleb128(_)
sizeof_uleb128(value) ==
    IF IsZero(Shr7(value)) THEN 1 ELSE 1 + sizeof_uleb128(Shr7(value))

\* A signed int is held in two's complement over the same limbs.
IsNegative(value) == value[NLimbs] >= 32768

\* value >> 7 on a signed int: the sign fills the top bits.
SignedShr7(value) ==
    [i \in 1..NLimbs |->
        (value[i] \div 128)
        + (IF i < NLimbs THEN (value[i + 1] % 128) * 512
           ELSE IF IsNegative(value) THEN 127 * 512 ELSE 0)]

\* value % 0x100000000 for value >= 0
Mod32(value) == [i \in 1..NLimbs |-> IF i <= 2 THEN value[i] ELSE 0]

\* value > 0x3F for value >= 0, and value < -0x40 for value < 0
Above3F(value) == value[1] > 63 \/ \E i \in 2..NLimbs : value[i] # 0
BelowMinus40(value) == value[1] < 65472 \/ \E i \in 2..NLimbs : value[i] # 65535

\* The two loops of pydex.util.sizeof_sleb128.
RECURSIVE SlebPositive(_, _)
SlebPositive(value, size) ==
    IF Above3F(value) THEN SlebPositive(SignedShr7(Mod32(value)), size + 1)
    ELSE size + 1

RECURSIVE SlebNegative(_, _)
SlebNegative(value, size) ==
    IF BelowMinus40(value) THEN SlebNegative(SignedShr7(value), size + 1)
    ELSE size + 1

\* pydex.util.sizeof_sleb128
sizeof_sleb128(value) ==
    IF ~IsNegative(value) THEN SlebPositive(value, 0) ELSE SlebNegative(value, 0)

\* stream.read_uleb128() at offset off: [ok, value, size], 7 bits a byte,
\* least significant group first, the high bit set on all but the last.
RECURSIVE ReadUleb128(_, _)
ReadUleb128(d, off) ==
    IF ~CanRead(d, off, 1) THEN [ok |-> FALSE, value |-> 0, size |-> 0]
    ELSE LET b == d[off + 1]
         IN IF b < 128 THEN [ok |-> TRUE, value |-> b, size |-> 1]
            ELSE LET rest == ReadUleb128(d, off + 1)
                 IN [ok |-> rest.ok,
                     value |-> (b - 128) + 128 * rest.value,
                     size |-> 1 + rest.size]

-----------------------------------------------------------------------------
(* MUTF-8 (DalvikStringItem.value).  A str is a sequence of code points.   *)

\* The getter's loop over bytearray(string_data): [exc, val].  pop(0) on an
\* empty bytearray raises IndexError.
RECURSIVE Mutf8Decode(_, _)
Mutf8Decode(b, decoded) ==
    IF Len(b) = 0 THEN [exc |-> "", val |-> decoded]
    ELSE LET c == b[1]
         IN IF BitAnd(c, 128) = 0
            THEN Mutf8Decode(Tail(b), Append(decoded, c))
            ELSE IF BitAnd(c, 224) = 192
            THEN IF Len(b) < 2 THEN [exc |-> "IndexError", val |-> << >>]
                 ELSE Mutf8Decode(SubSeq(b, 3, Len(b)),
                          Append(decoded, BitAnd(c, 31) * 64 + BitAnd(b[2], 63)))
            ELSE IF BitAnd(c, 240) = 224
            THEN IF Len(b) < 3 THEN [exc |-> "IndexError", val |-> << >>]
                 ELSE Mutf8Decode(SubSeq(b, 4, Len(b)),
                          Append(decoded, BitAnd(c, 15) * 4096
                                          + BitAnd(b[2], 63) * 64 + BitAnd(b[3], 63)))
            ELSE [exc |-> "ValueError", val |-> << >>]

\* item.value on a pool string: a LazyDalvikString has no such attribute; a
\* DalvikStringItem returns its cache when that is non-empty, else decodes.
StringValue(item) ==
    IF item.lazy THEN [exc |-> "AttributeError", val |-> << >>]
    ELSE IF Len(item._value) > 0 THEN [exc |-> "", val |-> item._value]
    ELSE Mutf8Decode(item.raw_item.string_data, << >>)

\* The setter's loop over the code points of value: [exc, val].
RECURSIVE Mutf8Encode(_, _)
Mutf8Encode(value, encoded) ==
    IF Len(value) = 0 THEN [exc |-> "", val |-> encoded]
    ELSE LET codepoint == Head(value)
         IN IF codepoint <= 127
            THEN Mutf8Encode(Tail(value), Append(encoded, codepoint))
            ELSE IF codepoint <= 2047
            THEN Mutf8Encode(Tail(value),
                     encoded \o << BitOr(192, BitAnd(codepoint \div 64, 31)),
                                   BitOr(128, BitAnd(codepoint, 63)) >>)
            ELSE IF codepoint <= 65535
            THEN Mutf8Encode(Tail(value),
                     encoded \o << BitOr(224, BitAnd(codepoint \div 4096, 15)),
                                   BitOr(128, BitAnd(codepoint \div 64, 63)),
                                   BitOr(128, BitAnd(codepoint, 63)) >>)
            ELSE [exc |-> "ValueError", val |-> << >>]

\* The DalvikStringItem after the getter stored what it decoded.
ValueGot(item, v) == [item EXCEPT !._value = v.val]

\* The DalvikStringItem after the setter stored the bytes it encoded: the
\* string data and utf16_size, the length of the encoded bytes.
ValueSet(item, e) ==
    [item EXCEPT !.raw_item.string_data = e.val, !.raw_item.utf16_size = Len(e.val)]

\* The getter's "self._value = decoded" on string number k.  A loaded
\* descriptor held by a type item is the very object the string pool holds
\* at that index, so the store shows in both.
CacheValue(self, k, val) ==
    LET put(s) == IF ~s.lazy /\ s.string_id.id_number = k
                  THEN [s EXCEPT !._value = val] ELSE s
    IN [self EXCEPT
          !.strings = [i \in 1..Len(@) |-> put(@[i])],
          !.types = [i \in 1..Len(@) |-> [@[i] EXCEPT !.descriptor = put(@)]]]

-----------------------------------------------------------------------------
(* The string pool.                                                        *)

DalvikStringID(self, offset, size, string_data_off, id_number) ==
    [offset |-> offset, size |-> size,
     data |-> Slice(self.data, offset, offset + size),
     string_data_off |-> string_data_off, id_number |-> id_number]

LazyDalvikString(string_id) == [lazy |-> TRUE, string_id |-> string_id]

RECURSIVE StringsLoop(_, _, _)
StringsLoop(self, i, lazy_strings) ==
    LET h == self.header.raw_item
        string_id_off == At(h.string_ids_off, i * StringIDStructSize)
    IN IF RangeDone(i, h.string_ids_size) THEN Ok(self, lazy_strings)
       ELSE IF ~CanRead(self.data, string_id_off, 4)
       THEN Raise(self, "EndOfStream", NoCode)
       ELSE StringsLoop(self, i + 1, Append(lazy_strings,
                LazyDalvikString(DalvikStringID(self, string_id_off,
                    StringIDStructSize,
                    read_uint32(self.data, string_id_off, self.stream.byteorder),
                    i))))

\* The body of DexFile.parse_strings.
parse_strings_func(self) ==
    IF self.header = None THEN Raise(self, "AttributeError", NoCode)
    ELSE Parsed(FLAG_PARSED_STRINGS, StringsLoop(self, 0, << >>))

LoadedStringNoPrefix(lazy_string, self, offset, leb) ==
    [lazy |-> FALSE,
     raw_item |-> [offset |-> offset,
                   size |-> sizeof_uleb128(IntLimbs(leb.value)) + leb.value,
                   data |-> Slice(self.data, offset,
                                  offset + sizeof_uleb128(IntLimbs(leb.value)) + leb.value),
                   utf16_size |-> leb.value,
                   string_data |-> Slice(self.data, offset, offset + leb.value)],
     string_id |-> lazy_string.string_id,
     _value |-> << >>]

\* The DalvikStringItem load builds from the uleb128 leb read at the string's
\* offset.  read(n) and seekpeek(off, n) return the bytes there are.
LoadedString(lazy_string, self, offset, leb) ==
    [lazy |-> FALSE,
     raw_item |-> [offset |-> offset,
                   size |-> sizeof_uleb128(IntLimbs(leb.value))
                            + Len(Slice(self.data, offset + leb.size,
                                        offset + leb.size + leb.value)),
                   data |-> Slice(self.data, offset,
                                  offset + sizeof_uleb128(IntLimbs(leb.value)) + leb.value),
                   utf16_size |-> leb.value,
                   string_data |-> Slice(self.data, offset + leb.size,
                                         offset + leb.size + leb.value)],
     string_id |-> lazy_string.string_id,
     _value |-> << >>]

\* stream.seek(pos)
StreamSeek(self, pos) == [self EXCEPT !.stream.pos = pos]

\* The view once load has moved the stream to the string's offset and read
\* the uleb128 leb and the bytes after it; seekpeek does not move the stream.
LoadReads(lazy_string, self, leb) ==
    StreamSeek(self, lazy_string.string_id.string_data_off + leb.size
                     + Len(Slice(self.data,
                                 lazy_string.string_id.string_data_off + leb.size,
                                 lazy_string.string_id.string_data_off + leb.size
                                 + leb.value)))

LoadRestoreSkipped(moved, pos) == moved

\* "stream.seek(pos)" at the end of load: pos is what tell() gave on entry.
LoadRestore(moved, pos) == StreamSeek(moved, pos)

LoadAt(lazy_string, self, leb) ==
    IF ~leb.ok
    THEN Raise(StreamSeek(self, Len(self.data)), "EndOfStream", NoCode)
    ELSE Ok(LoadRestore(LoadReads(lazy_string, self, leb), self.stream.pos),
            LoadedString(lazy_string, self,
                         lazy_string.string_id.string_data_off, leb))

\* LazyDalvikString.load(stream) on the view's own stream.  The position is
\* saved and restored around the reads; a read_uleb128 that runs off the end
\* raises before the restore.
load(lazy_string, self) ==
    LoadAt(lazy_string, self,
           ReadUleb128(self.data, lazy_string.string_id.string_data_off))

RECURSIVE LoadLoop(_, _, _)

LoadNext(i, loaded, r) ==
    IF ~r.ok THEN r ELSE LoadLoop(r.self, i + 1, Append(loaded, r.val))

LoadLoop(self, i, loaded) ==
    IF i > Len(self.strings) THEN Ok(self, loaded)
    ELSE IF ~self.strings[i].lazy      \* a DalvikStringItem has no load()
    THEN Raise(self, "AttributeError", NoCode)
    ELSE LoadNext(i, loaded, load(self.strings[i], self))

\* The body of DexFile.load_all_strings.
load_all_strings_func(self) ==
    IF Len(self.strings) = 0 THEN Ok(self, << >>)
    ELSE LoadLoop(self, 1, << >>)

get_string_by_id_func_First(self, string_id) ==
    IF Len(self.strings) > 0 THEN Ok(self, self.strings[1])
    ELSE Raise(self, "AttributeError", NoCode)

\* The body of DexFile.get_string_by_id.
get_string_by_id_func(self, string_id) ==
    IF Len(self.strings) > 0
    THEN IF UGe(string_id, Len(self.strings)) THEN Raise(self, "IndexError", NoCode)
         ELSE Ok(self, self.strings[string_id + 1])
    ELSE IF self.header = None THEN Raise(self, "AttributeError", NoCode)
    ELSE LET string_id_off == At(self.header.raw_item.string_ids_off, string_id * 4)
         IN IF ~CanRead(self.data, string_id_off, 4)
            THEN Raise(self, "EndOfStream", NoCode)
            ELSE Ok(self, LazyDalvikString(DalvikStringID(self, string_id_off, 4,
                        read_uint32(self.data, string_id_off, self.stream.byteorder),
                        string_id)))

-----------------------------------------------------------------------------
(* The type pool.                                                          *)

RECURSIVE TypesLoop(_, _, _)
TypesLoop(self, i, acc) ==
    LET h == self.header.raw_item
        type_id_off == At(h.type_ids_off, i * TypeIDStructSize)
        descriptor_idx == read_uint32(self.data, type_id_off, self.stream.byteorder)
    IN IF RangeDone(i, h.type_ids_size) THEN Ok(self, acc)
       ELSE IF ~CanRead(self.data, type_id_off, 4)
       THEN Raise(self, "EndOfStream", NoCode)
       ELSE IF UGe(descriptor_idx, Len(self.strings))
       THEN Raise(self, "IndexError", NoCode)
       ELSE TypesLoop(self, i + 1, Append(acc,
                [raw_item |-> [offset |-> type_id_off, size |-> TypeIDStructSize,
                               data |-> Slice(self.data, type_id_off,
                                              type_id_off + TypeIDStructSize),
                               descriptor_idx |-> descriptor_idx,
                               id_number |-> i],
                 descriptor |-> self.strings[descriptor_idx + 1]]))

parse_types_func_NoEmptyCheck(self) ==
    IF self.header = None THEN Raise(self, "AttributeError", NoCode)
    ELSE Parsed(FLAG_PARSED_TYPES, TypesLoop(self, 0, << >>))

\* The body of DexFile.parse_types.
parse_types_func(self) ==
    IF Len(self.strings) = 0 THEN Ok(self, << >>)
    ELSE IF self.header = None THEN Raise(self, "AttributeError", NoCode)
    ELSE Parsed(FLAG_PARSED_TYPES, TypesLoop(self, 0, << >>))

-----------------------------------------------------------------------------
(* The proto pool.                                                         *)

\* The loop over a type list's entries: the u16 type indices read, each
\* looked up in self.types as it is read.
RECURSIVE EntriesLoop(_, _, _, _, _)
EntriesLoop(self, off, length, j, idxs) ==
    LET idx == read_uint16(self.data, off + 2 * j, self.stream.byteorder)
    IN IF RangeDone(j, length) THEN Ok(self, idxs)
       ELSE IF ~CanRead(self.data, off + 2 * j, 2)
       THEN Raise(self, "EndOfStream", NoCode)
       ELSE IF UGe(idx, Len(self.types)) THEN Raise(self, "IndexError", NoCode)
       ELSE EntriesLoop(self, off, length, j + 1, Append(idxs, idx))

\* [x.descriptor.value for x in param_type_list.types]: each read of value
\* may raise, and stores what it decoded in the string item.
RECURSIVE ValuesLoop(_, _, _, _)

ValuesNext(self, idxs, k, vals, descriptor, v) ==
    IF v.exc # "" THEN Raise(self, v.exc, NoCode)
    ELSE ValuesLoop(CacheValue(self, descriptor.string_id.id_number, v.val),
                    idxs, k + 1, Append(vals, v.val))

ValuesLoop(self, idxs, k, vals) ==
    IF k > Len(idxs) THEN Ok(self, vals)
    ELSE ValuesNext(self, idxs, k, vals, self.types[idxs[k] + 1].descriptor,
                    StringValue(self.types[idxs[k] + 1].descriptor))

\* DalvikTypeList.size as parse_protos computes it: list_size + 4, where
\* list_size = len(entries) * DalvikTypeID.struct_size.
TypeListSize(entries) == Len(entries) * TypeIDStructSize + 4

\* The parameters of a proto whose type list was read: raw_list is the
\* DalvikTypeList, refs the id_number of each of its entries
\* (DalvikTypeListItem.from_raw_item looks types[e.id_number] up).
ProtoWithValues(raw, raw_list, refs, v) ==
    IF ~v.ok THEN v
    ELSE Ok(v.self, [raw_item |-> raw, has_params |-> TRUE, list |-> raw_list,
                     idxs |-> refs, parameter_list |-> v.val])

ProtoParameters(self, raw, raw_list, refs) ==
    ProtoWithValues(raw, raw_list, refs, ValuesLoop(self, refs, 1, << >>))

\* The DalvikTypeList of entries, the raw items of the types looked up.
ProtoTypeList(self, raw, length, entries) ==
    ProtoParameters(self, raw,
        [offset |-> raw.parameters_off,
         size |-> TypeListSize(entries),
         data |-> Slice(self.data, raw.parameters_off,
                        raw.parameters_off + TypeListSize(entries)),
         length |-> length, entries |-> entries],
        [k \in 1..Len(entries) |-> entries[k].id_number])

ProtoEntries(self, raw, length, e) ==
    IF ~e.ok THEN e
    ELSE ProtoTypeList(self, raw, length,
             [k \in 1..Len(e.val) |-> self.types[e.val[k] + 1].raw_item])

ProtoLength(self, raw, length) ==
    ProtoEntries(self, raw, length,
                 EntriesLoop(self, raw.parameters_off + 4, length, 0, << >>))

\* What parse_protos does with the DalvikProtoID raw of one round.
ProtoResolve(self, raw) ==
    IF UGe(raw.shorty_idx, Len(self.strings)) THEN Raise(self, "IndexError", NoCode)
    ELSE IF UGe(raw.return_type_idx, Len(self.types))
         THEN Raise(self, "IndexError", NoCode)
    ELSE IF raw.parameters_off = 0
    THEN Ok(self, [raw_item |-> raw, has_params |-> FALSE, list |-> None,
                   idxs |-> << >>, parameter_list |-> << >>])
    ELSE IF ~CanRead(self.data, raw.parameters_off, 4)
         THEN Raise(self, "EndOfStream", NoCode)
    ELSE ProtoLength(self, raw,
             read_uint32(self.data, raw.parameters_off, self.stream.byteorder))

ProtoReadAt(self, i, proto_id_off) ==
    IF ~CanRead(self.data, proto_id_off, ProtoIDStructSize)
    THEN Raise(self, "EndOfStream", NoCode)
    ELSE ProtoResolve(self,
             [offset |-> proto_id_off, size |-> ProtoIDStructSize,
              data |-> Slice(self.data, proto_id_off, proto_id_off + ProtoIDStructSize),
              shorty_idx |-> read_uint32(self.data, proto_id_off,
                                         self.stream.byteorder),
              return_type_idx |-> read_uint32(self.data, proto_id_off + 4,
                                              self.stream.byteorder),
              parameters_off |-> read_uint32(self.data, proto_id_off + 8,
                                             self.stream.byteorder),
              id_number |-> i])

\* What one round of the loop of parse_protos reads and resolves for proto i:
\* the view (string values may have been cached) and the proto's raw parts.
ProtoRead(self, i) ==
    ProtoReadAt(self, i, At(self.header.raw_item.proto_ids_off, i * ProtoIDStructSize))

DalvikProtoIDItemEmptyLists(self, p) ==
    [raw_item |-> p.raw_item,
     shorty |-> self.strings[p.raw_item.shorty_idx + 1],
     return_type |-> self.types[p.raw_item.return_type_idx + 1],
     parameters |-> [raw_item |-> p.list,
                     types |-> [k \in 1..Len(p.idxs) |-> self.types[p.idxs[k] + 1]]],
     parameter_list |-> [list |-> p.parameter_list]]

\* The DalvikProtoIDItem of what ProtoRead resolved: the items it refers to
\* are the objects of the view's pools.
DalvikProtoIDItem(self, p) ==
    [raw_item |-> p.raw_item,
     shorty |-> self.strings[p.raw_item.shorty_idx + 1],
     return_type |-> self.types[p.raw_item.return_type_idx + 1],
     parameters |-> IF p.has_params
                    THEN [raw_item |-> p.list,
                          types |-> [k \in 1..Len(p.idxs) |-> self.types[p.idxs[k] + 1]]]
                    ELSE None,
     parameter_list |-> IF p.has_params THEN [list |-> p.parameter_list] ELSE None]

RECURSIVE ProtosLoop(_, _, _)

ProtosNext(i, acc, r) ==
    IF ~r.ok THEN r ELSE ProtosLoop(r.self, i + 1, Append(acc, r.val))

ProtosLoop(self, i, acc) ==
    IF RangeDone(i, self.header.raw_item.proto_ids_size)
    THEN Ok(self, [k \in 1..Len(acc) |-> DalvikProtoIDItem(self, acc[k])])
    ELSE ProtosNext(i, acc, ProtoRead(self, i))

\* The body of DexFile.parse_protos.
parse_protos_func(self) ==
    IF Len(self.types) = 0 \/ Len(self.strings) = 0 THEN Ok(self, << >>)
    ELSE IF self.header = None THEN Raise(self, "AttributeError", NoCode)
    ELSE Parsed(FLAG_PARSED_PROTOS, ProtosLoop(self, 0, << >>))

-----------------------------------------------------------------------------
(* The field and method pools.                                             *)

RECURSIVE FieldsLoop(_, _, _)
FieldsLoop(self, i, acc) ==
    LET d == self.data
        bo == self.stream.byteorder
        field_id_off == At(self.header.raw_item.field_ids_off, i * FieldStructSize)
        class_idx == read_uint16(d, field_id_off, bo)
        type_idx == read_uint16(d, field_id_off + 2, bo)
        name_idx == read_uint32(d, field_id_off + 4, bo)
    IN IF RangeDone(i, self.header.raw_item.field_ids_size) THEN Ok(self, acc)
       ELSE IF ~CanRead(d, field_id_off, FieldStructSize)
       THEN Raise(self, "EndOfStream", NoCode)
       ELSE IF UGe(class_idx, Len(self.types)) \/ UGe(type_idx, Len(self.types))
               \/ UGe(name_idx, Len(self.strings))
       THEN Raise(self, "IndexError", NoCode)
       ELSE FieldsLoop(self, i + 1, Append(acc,
                [raw_item |-> [offset |-> field_id_off, size |-> FieldStructSize,
                               data |-> Slice(d, field_id_off,
                                              field_id_off + FieldStructSize),
                               class_idx |-> class_idx, type_idx |-> type_idx,
                               name_idx |-> name_idx, id_number |-> i],
                 class_def |-> self.types[class_idx + 1],
                 type |-> self.types[type_idx + 1],
                 name |-> self.strings[name_idx + 1]]))

\* The body of DexFile.parse_fields.
parse_fields_func(self) ==
    IF Len(self.types) = 0 \/ Len(self.strings) = 0 THEN Ok(self, << >>)
    ELSE IF self.header = None THEN Raise(self, "AttributeError", NoCode)
    ELSE Parsed(FLAG_PARSED_FIELDS, FieldsLoop(self, 0, << >>))

RECURSIVE MethodsLoop(_, _, _)
MethodsLoop(self, i, acc) ==
    LET d == self.data
        bo == self.stream.byteorder
        method_id_off == At(self.header.raw_item.method_ids_off, i * MethodStructSize)
        class_idx == read_uint16(d, method_id_off, bo)
        proto_idx == read_uint16(d, method_id_off + 2, bo)
        name_idx == read_uint32(d, method_id_off + 4, bo)
    IN IF RangeDone(i, self.header.raw_item.method_ids_size) THEN Ok(self, acc)
       ELSE IF ~CanRead(d, method_id_off, MethodStructSize)
       THEN Raise(self, "EndOfStream", NoCode)
       ELSE IF UGe(class_idx, Len(self.types)) \/ UGe(proto_idx, Len(self.protos))
               \/ UGe(name_idx, Len(self.strings))
       THEN Raise(self, "IndexError", NoCode)
       ELSE MethodsLoop(self, i + 1, Append(acc,
                [raw_item |-> [offset |-> method_id_off, size |-> MethodStructSize,
                               data |-> Slice(d, method_id_off,
                                              method_id_off + MethodStructSize),
                               class_idx |-> class_idx, proto_idx |-> proto_idx,
                               name_idx |-> name_idx, id_number |-> i],
                 class_def |-> self.types[class_idx + 1],
                 proto |-> self.protos[proto_idx + 1],
                 name |-> self.strings[name_idx + 1]]))

\* The body of DexFile.parse_methods.
parse_methods_func(self) ==
    IF Len(self.types) = 0 \/ Len(self.strings) = 0 \/ Len(self.protos) = 0
    THEN Ok(self, << >>)
    ELSE IF self.header = None THEN Raise(self, "AttributeError", NoCode)
    ELSE Parsed(FLAG_PARSED_METHODS, MethodsLoop(self, 0, << >>))

-----------------------------------------------------------------------------------------------------------------------------------------------------
(* DexFile.requires_section and the decorated public methods.              *)

\* func(self, *args, **kwargs)
CallFunc(func, self, arg) ==
    CASE func = "parse_strings" -> parse_strings_func(self)
      [] func = "parse_types" -> parse_types_func(self)
      [] func = "parse_protos" -> parse_protos_func(self)
      [] func = "parse_fields" -> parse_fields_func(self)
      [] func = "parse_methods" -> parse_methods_func(self)
      [] func = "load_all_strings" -> load_all_strings_func(self)
      [] func = "get_string_by_id" -> get_string_by_id_func(self, arg)

\* do_x of the wrapper: read from the mask of the view on entry.
do_section(flags, entry, flag) ==
    ~HasFlag(entry.section_flags, flag) /\ HasFlag(flags, flag)

\* One "if do_x: self.x = self.parse_x()" of the wrapper, after the steps
\* before it (an exception ends the call); r is the result of parse_x on the
\* view those steps left.
Prerequisite(before, do, r, field) ==
    IF ~before.ok \/ ~do THEN before
    ELSE IF ~r.ok THEN r
    ELSE Ok(CASE field = "strings" -> [r.self EXCEPT !.strings = r.val]
              [] field = "types" -> [r.self EXCEPT !.types = r.val]
              [] field = "protos" -> [r.self EXCEPT !.protos = r.val]
              [] field = "fields" -> [r.self EXCEPT !.fields = r.val]
              [] field = "methods" -> [r.self EXCEPT !.methods = r.val]
              [] OTHER -> r.self,
            << >>)

\* The wrapper's call of the decorated function once its steps ran.
Wrapped(func, arg, s) == IF ~s.ok THEN s ELSE CallFunc(func, s.self, arg)

\* The steps of the wrapper, in its order.  A step calls a decorated method,
\* whose own wrapper runs in turn, so the steps are defined from the header
\* up.  No decorated method names FLAG_PARSED_FIELDS or FLAG_PARSED_METHODS,
\* so do_fields and do_methods are false in every wrapper call.
requires_header(flags, entry) ==
    Prerequisite(Ok(entry, << >>), do_section(flags, entry, FLAG_PARSED_HEADER),
                 parse_dex_prologue(entry), "")

parse_strings(self) ==
    Wrapped("parse_strings", 0, requires_header(FLAG_PARSED_HEADER, self))

requires_strings(flags, entry, before) ==
    Prerequisite(before, do_section(flags, entry, FLAG_PARSED_STRINGS),
                 parse_strings(before.self), "strings")

requires_upto_strings(flags, entry) ==
    requires_strings(flags, entry, requires_header(flags, entry))

parse_types(self) ==
    Wrapped("parse_types", 0, requires_upto_strings(FLAG_PARSED_STRINGS, self))

load_all_strings(self) ==
    Wrapped("load_all_strings", 0, requires_upto_strings(FLAG_PARSED_STRINGS, self))

get_string_by_id(self, string_id) ==
    Wrapped("get_string_by_id", string_id,
            requires_upto_strings(BitOr(FLAG_PARSED_STRINGS, FLAG_PARSED_HEADER), self))

requires_types(flags, entry, before) ==
    Prerequisite(before, do_section(flags, entry, FLAG_PARSED_TYPES),
                 parse_types(before.self), "types")

requires_upto_types(flags, entry) ==
    requires_types(flags, entry, requires_upto_strings(flags, entry))

parse_protos(self) ==
    Wrapped("parse_protos", 0, requires_upto_types(FLAG_PARSED_TYPES, self))

parse_fields(self) ==
    Wrapped("parse_fields", 0, requires_upto_types(FLAG_PARSED_TYPES, self))

requires_protos(flags, entry, before) ==
    Prerequisite(before, do_section(flags, entry, FLAG_PARSED_PROTOS),
                 parse_protos(before.self), "protos")

requires_upto_protos(flags, entry) ==
    requires_protos(flags, entry, requires_upto_types(flags, entry))

parse_methods(self) ==
    Wrapped("parse_methods", 0, requires_upto_protos(FLAG_PARSED_PROTOS, self))

-----------------------------------------------------------------------------
(* DexFile.parse_dex.                                                      *)

parse_dex_strings_AlwaysLazy(before) ==
    Prerequisite(before, TRUE, parse_strings(before.self), "strings")

\* self.strings = self.parse_strings(), or self.load_all_strings() when
\* no_lazy_load is set.
parse_dex_strings(before) ==
    Prerequisite(before, TRUE,
                 IF ~before.self.no_lazy_load THEN parse_strings(before.self)
                 ELSE load_all_strings(before.self), "strings")

parse_dex_types(before) ==
    Prerequisite(before, TRUE, parse_types(before.self), "types")

parse_dex_protos(before) ==
    Prerequisite(before, TRUE, parse_protos(before.self), "protos")

parse_dex_fields(before) ==
    Prerequisite(before, TRUE, parse_fields(before.self), "fields")

parse_dex_methods(before) ==
    Prerequisite(before, TRUE, parse_methods(before.self), "methods")

parse_dex(self) ==
    parse_dex_methods(parse_dex_fields(parse_dex_protos(parse_dex_types(
        parse_dex_strings(parse_dex_prologue(self))))))

-----
(* Input files.  A layout lists the contents of the five id tables; Build  *)
(* lays them out as a dex file (header, the id tables, then the type lists *)
(* and the string data), in either byte order, with a correct checksum.    *)
(* The tests then overwrite bytes of a valid file (get_modified_dex).      *)

UIntBytes(n, size, big) ==
    LET le == [i \in 1..size |-> (n \div (256 ^ (i - 1))) % 256]
    IN IF big THEN Reverse(le) ELSE le

RECURSIVE Concat(_)
Concat(ss) == IF Len(ss) = 0 THEN << >> ELSE Head(ss) \o Concat(Tail(ss))

Zeros(n) == [i \in 1..n |-> 0]
Pad4(n) == (4 - (n % 4)) % 4

\* The uleb128 encoding of n: 7 bits a byte, least significant group first.
RECURSIVE WriteUleb128(_)
WriteUleb128(n) ==
    IF n < 128 THEN << n >> ELSE << 128 + (n % 128) >> \o WriteUleb128(n \div 128)

\* The number of UTF-16 code units of the MUTF-8 bytes str (code points up
\* to 0xFFFF): one for every byte that is no continuation byte.
Utf16Len(str) == Cardinality({ i \in 1..Len(str) : BitAnd(str[i], 192) # 128 })

\* string_data_item: uleb128 utf16_size, the MUTF-8 bytes, a NUL.
StringDataItem(str) == WriteUleb128(Utf16Len(str)) \o str \o << 0 >>

\* type_list: u32 length, u16 entries, padded to 4 bytes.
TypeListItem(params, big) ==
    LET b == UIntBytes(Len(params), 4, big)
             \o Concat([k \in 1..Len(params) |-> UIntBytes(params[k], 2, big)])
    IN b \o Zeros(Pad4(Len(b)))

RECURSIVE SumLen(_, _)
SumLen(ss, n) == IF n = 0 THEN 0 ELSE SumLen(ss, n - 1) + Len(ss[n])

StrI == << 73 >>                \* "I"
StrL == << 76 >>                \* "L"
StrV == << 86 >>                \* "V"
StrVL == << 86, 76 >>           \* "VL"
StrF == << 102 >>               \* "f"
StrM == << 109 >>               \* "m"

Proto(shorty, ret, has, params) ==
    [shorty |-> shorty, ret |-> ret, has |-> has, params |-> params]
FieldId(cls, typ, name) == [cls |-> cls, typ |-> typ, name |-> name]
MethodId(cls, proto, name) == [cls |-> cls, proto |-> proto, name |-> name]

StrEAcute == << 195, 169 >>     \* U+00E9, two bytes for one code unit
StrEuro == << 226, 130, 172 >>  \* U+20AC, three bytes for one code unit
LongLen == 128                  \* the shortest length whose uleb128 takes two bytes
StrLong == [i \in 1..LongLen |-> 97]

MinStrs == << StrI, StrL, StrV, StrVL, StrF, StrM >>

LayoutOf(name) ==
    CASE name = "min" ->
           [strs |-> MinStrs, types |-> << 0, 1, 2 >>,
            protos |-> << Proto(2, 2, FALSE, << >>), Proto(3, 2, TRUE, << 1 >>) >>,
            fields |-> << FieldId(1, 0, 4) >>,
            methods |-> << MethodId(1, 0, 5), MethodId(1, 1, 5) >>]
      [] name = "noparams" ->
           [strs |-> MinStrs, types |-> << 0, 1, 2 >>,
            protos |-> << Proto(2, 2, FALSE, << >>), Proto(2, 0, FALSE, << >>) >>,
            fields |-> << FieldId(1, 0, 4) >>,
            methods |-> << MethodId(1, 0, 5), MethodId(1, 1, 5) >>]
      [] name = "noprotos" ->
           [strs |-> MinStrs, types |-> << 0, 1, 2 >>,
            protos |-> << >>,
            fields |-> << FieldId(1, 0, 4) >>,
            methods |-> << >>]
      [] name = "empty" ->
           [strs |-> << >>, types |-> << >>, protos |-> << >>,
            fields |-> << >>, methods |-> << >>]
      [] name = "badfield" ->       \* a field whose name_idx is out of range
           [strs |-> MinStrs, types |-> << 0, 1, 2 >>,
            protos |-> << Proto(2, 2, FALSE, << >>) >>,
            fields |-> << FieldId(1, 0, 9) >>,
            methods |-> << MethodId(1, 0, 5) >>]
      [] name = "badtype" ->        \* a type whose descriptor_idx is out of range
           [strs |-> MinStrs, types |-> << 0, 7 >>,
            protos |-> << Proto(2, 0, FALSE, << >>) >>,
            fields |-> << >>,
            methods |-> << MethodId(0, 0, 5) >>]

      [] name = "strs" ->           \* strings only: multi-byte and long ones
           [strs |-> << StrEAcute, StrLong, StrEuro >>, types |-> << >>,
            protos |-> << >>, fields |-> << >>, methods |-> << >>]
      [] name = "nostrings" ->      \* no strings, the other tables filled
           [strs |-> << >>, types |-> << 0, 1 >>,
            protos |-> << Proto(0, 0, FALSE, << >>) >>,
            fields |-> << FieldId(0, 1, 0) >>,
            methods |-> << MethodId(0, 0, 0) >>]
      [] name = "notypes" ->        \* no types, the tables after them filled
           [strs |-> MinStrs, types |-> << >>,
            protos |-> << Proto(2, 0, FALSE, << >>) >>,
            fields |-> << FieldId(0, 0, 4) >>,
            methods |-> << MethodId(0, 0, 5) >>]
      [] name = "protoless" ->      \* no protos, the method table filled
           [strs |-> MinStrs, types |-> << 0, 1, 2 >>,
            protos |-> << >>,
            fields |-> << FieldId(1, 0, 4) >>,
            methods |-> << MethodId(1, 0, 5) >>]

WellFormedLayouts == { "min", "noparams", "noprotos", "empty", "strs" }
\* Files whose header gives an empty pool that filled tables depend on.
DanglingLayouts == { "nostrings", "notypes", "protoless" }
LayoutNames == WellFormedLayouts \cup DanglingLayouts \cup { "badfield", "badtype" }

\* The file of a layout, the checksum field still zero.
Unsealed(l, big) ==
    LET ns == Len(l.strs)
        nt == Len(l.types)
        np == Len(l.protos)
        nf == Len(l.fields)
        nm == Len(l.methods)
        string_ids_off == HeaderStructSize
        type_ids_off == string_ids_off + StringIDStructSize * ns
        proto_ids_off == type_ids_off + TypeIDStructSize * nt
        field_ids_off == proto_ids_off + ProtoIDStructSize * np
        method_ids_off == field_ids_off + FieldStructSize * nf
        data_off == method_ids_off + MethodStructSize * nm
        lists == [i \in 1..np |-> IF l.protos[i].has
                                  THEN TypeListItem(l.protos[i].params, big)
                                  ELSE << >>]
        list_off(i) == data_off + SumLen(lists, i - 1)
        strs_off == data_off + SumLen(lists, np)
        items == [i \in 1..ns |-> StringDataItem(l.strs[i])]
        str_off(i) == strs_off + SumLen(items, i - 1)
        unpadded == strs_off + SumLen(items, ns)
        file_size == unpadded + Pad4(unpadded)
        u(n) == UIntBytes(n, 4, big)
        h(n) == UIntBytes(n, 2, big)
        off(n, o) == IF n = 0 THEN 0 ELSE o
    IN << 100, 101, 120, 10, 48, 51, 53, 0 >>          \* "dex\n035\0"
       \o u(0)                                         \* checksum
       \o [i \in 1..20 |-> i]                          \* signature (not verified)
       \o u(file_size) \o u(HeaderStructSize) \o u(TagBig)
       \o u(0) \o u(0) \o u(0)                         \* link_size, link_off, map_off
       \o u(ns) \o u(off(ns, string_ids_off))
       \o u(nt) \o u(off(nt, type_ids_off))
       \o u(np) \o u(off(np, proto_ids_off))
       \o u(nf) \o u(off(nf, field_ids_off))
       \o u(nm) \o u(off(nm, method_ids_off))
       \o u(0) \o u(0)                                 \* class_defs
       \o u(file_size - data_off) \o u(off(file_size - data_off, data_off))
       \o Concat([i \in 1..ns |-> u(str_off(i))])
       \o Concat([i \in 1..nt |-> u(l.types[i])])
       \o Concat([i \in 1..np |->
                    u(l.protos[i].shorty) \o u(l.protos[i].ret)
                    \o u(IF l.protos[i].has THEN list_off(i) ELSE 0)])
       \o Concat([i \in 1..nf |->
                    h(l.fields[i].cls) \o h(l.fields[i].typ) \o u(l.fields[i].name)])
       \o Concat([i \in 1..nm |->
                    h(l.methods[i].cls) \o h(l.methods[i].proto)
                    \o u(l.methods[i].name)])
       \o Concat(lists) \o Concat(items) \o Zeros(Pad4(unpadded))

\* dex_data[:mod_offset] + mod_data + dex_data[mod_offset + len(mod_data):]
get_modified_dex(d, mod_offset, mod_data) ==
    [i \in 1..Len(d) |->
        IF i > mod_offset /\ i <= mod_offset + Len(mod_data)
        THEN mod_data[i - mod_offset] ELSE d[i]]

\* Store adler32(d[12:]) in the checksum field.
Seal(d, big) ==
    get_modified_dex(d, 8, UIntBytes(adler32(Slice(d, 12, Len(d))), 4, big))

\* The overwrites of tests/test_header.py, and two more: the real data_size
\* field (offset 104) and version bytes that are no number.
Corrupted(d, corrupt) ==
    CASE corrupt = "none" -> d
      [] corrupt = "magic" -> get_modified_dex(d, 0, << 97, 98, 99, 100, 10 >>)
      [] corrupt = "magic_nul" -> get_modified_dex(d, 7, << 1 >>)
      [] corrupt = "checksum" -> get_modified_dex(d, 8, << 0, 0, 0, 0 >>)
      [] corrupt = "header_size" -> get_modified_dex(d, 36, << 0, 0, 0, 0 >>)
      [] corrupt = "endian_tag" -> get_modified_dex(d, 40, << 0, 0, 0, 0 >>)
      [] corrupt = "type_ids_size" -> get_modified_dex(d, 64, << 255, 255, 255, 255 >>)
      [] corrupt = "proto_ids_size" -> get_modified_dex(d, 72, << 255, 255, 255, 255 >>)
      [] corrupt = "data_size" -> get_modified_dex(d, 94, << 5, 0, 0, 0 >>)
      [] corrupt = "data_size_field" -> get_modified_dex(d, 104, << 5, 5, 5, 5 >>)
      [] corrupt = "version" -> get_modified_dex(d, 4, << 97, 98, 99 >>)

TestCorruptions == { "magic", "magic_nul", "checksum", "header_size", "endian_tag",
                     "type_ids_size", "proto_ids_size", "data_size" }
Corruptions == TestCorruptions \cup { "data_size_field", "version" }

\* The rules of the header in the order the code checks them, each named by
\* the overwrite that breaks it.
RuleOrder ==
    << "endian_tag", "magic", "magic_nul", "checksum", "header_size",
       "type_ids_size", "proto_ids_size", "data_size_field" >>

\* Several overwrites at once: every one of RuleOrder from the k-th on.
SeveralFrom ==
    [from_endian_tag |-> 1, from_magic |-> 2, from_magic_nul |-> 3,
     from_checksum |-> 4, from_header_size |-> 5, from_type_ids_size |-> 6,
     from_proto_ids_size |-> 7]

RECURSIVE CorruptedFrom(_, _)
CorruptedFrom(d, k) ==
    IF k > Len(RuleOrder) THEN d
    ELSE CorruptedFrom(Corrupted(d, RuleOrder[k]), k + 1)

\* The bytes of a fixture: a valid file, then the overwrite or overwrites;
\* reseal stores the checksum of the overwritten file.
FileOf(f) ==
    LET valid == Seal(Unsealed(LayoutOf(f.layout), f.big), f.big)
        c == IF f.corrupt \in DOMAIN SeveralFrom
             THEN CorruptedFrom(valid, SeveralFrom[f.corrupt])
             ELSE Corrupted(valid, f.corrupt)
    IN IF f.reseal THEN Seal(c, f.big) ELSE c

Fixtures ==
    { [layout |-> l, big |-> b, corrupt |-> "none", reseal |-> FALSE] :
        l \in LayoutNames, b \in BOOLEAN }
    \cup { [layout |-> "min", big |-> b, corrupt |-> c, reseal |-> r] :
             b \in BOOLEAN, c \in Corruptions \cup DOMAIN SeveralFrom,
             r \in BOOLEAN }

WellFormed(f) == f.corrupt = "none" /\ f.layout \in WellFormedLayouts

-----------------------------------------------------------------------------
(* The view and its public calls.                                          *)

MaxStringId == 1               \* get_string_by_id is called with 0..MaxStringId
MaxSeek == 1                   \* the stream is moved to offsets 4 * (0..MaxSeek)

\* DexFile.__init__
NewDexFile(d, nll) ==
    [data |-> d, no_lazy_load |-> nll, section_flags |-> 0,
     stream |-> [pos |-> 0, byteorder |-> LITTLE_ENDIAN],
     header |-> None, strings |-> << >>, types |-> << >>, protos |-> << >>,
     fields |-> << >>, methods |-> << >>]

Self ==
    [data |-> data, no_lazy_load |-> no_lazy_load, section_flags |-> section_flags,
     stream |-> stream, header |-> header, strings |-> strings, types |-> types,
     protos |-> protos, fields |-> fields, methods |-> methods]

PoolParsers == { "parse_strings", "parse_types", "parse_protos", "parse_fields",
                 "parse_methods" }

NoCall == [op |-> "", arg |-> 0,
           out |-> [ok |-> TRUE, val |-> << >>, exc |-> "", code |-> NoCode]]

\* The variables hold the view v.
IsView(v) ==
    /\ data = v.data
    /\ no_lazy_load = v.no_lazy_load
    /\ section_flags = v.section_flags
    /\ stream = v.stream
    /\ header = v.header
    /\ strings = v.strings
    /\ types = v.types
    /\ protos = v.protos
    /\ fields = v.fields
    /\ methods = v.methods

Init ==
    \E f \in Fixtures, nll \in BOOLEAN :
        /\ IsView(NewDexFile(FileOf(f), nll))
        /\ last = NoCall
        /\ fixture = f
        /\ phase = "fresh"
        /\ only_pool_ok = TRUE
        /\ on_entry = [pos |-> 0, flags |-> 0]
    /\ tasks = << >>

\* A public call op(arg) with result r: the view becomes r.self.
Call(op, arg, r) ==
    /\ data' = r.self.data
    /\ no_lazy_load' = r.self.no_lazy_load
    /\ section_flags' = r.self.section_flags
    /\ stream' = r.self.stream
    /\ header' = r.self.header
    /\ strings' = r.self.strings
    /\ types' = r.self.types
    /\ protos' = r.self.protos
    /\ fields' = r.self.fields
    /\ methods' = r.self.methods
    /\ last' = [op |-> op, arg |-> arg, out |-> Outcome(r)]
    /\ phase' = IF phase = "fresh" THEN "first" ELSE "later"
    /\ only_pool_ok' = (only_pool_ok /\ op \in PoolParsers /\ r.ok)
    /\ on_entry' = [pos |-> stream.pos, flags |-> section_flags]
    /\ UNCHANGED << fixture, tasks >>

CallParseHeader == Call("parse_header", 0, parse_header(Self))
CallParseDexPrologue == Call("parse_dex_prologue", 0, parse_dex_prologue(Self))
CallParseDex == Call("parse_dex", 0, parse_dex(Self))
CallParseStrings == Call("parse_strings", 0, parse_strings(Self))
CallParseTypes == Call("parse_types", 0, parse_types(Self))
CallParseProtos == Call("parse_protos", 0, parse_protos(Self))
CallParseFields == Call("parse_fields", 0, parse_fields(Self))
CallParseMethods == Call("parse_methods", 0, parse_methods(Self))
CallLoadAllStrings == Call("load_all_strings", 0, load_all_strings(Self))
CallGetStringById ==
    \E string_id \in 0..MaxStringId :
        Call("get_string_by_id", string_id, get_string_by_id(Self, string_id))

\* handle.load(view.stream) on a handle of the view's string pool.
CallLoad ==
    \E string_id \in 0..MaxStringId :
        /\ string_id < Len(strings)
        /\ strings[string_id + 1].lazy
        /\ Call("load", string_id, load(strings[string_id + 1], Self))

\* view.stream.seek(pos) by the owner of the view.
CallStreamSeek ==
    \E k \in 0..MaxSeek :
        Call("stream.seek", 4 * k, Ok(StreamSeek(Self, 4 * k), << >>))

Next ==
    \/ CallParseHeader
    \/ CallParseDexPrologue
    \/ CallParseDex
    \/ CallParseStrings
    \/ CallParseTypes
    \/ CallParseProtos
    \/ CallParseFields
    \/ CallParseMethods
    \/ CallLoadAllStrings
    \/ CallGetStringById
    \/ CallLoad
    \/ CallStreamSeek

Spec == Init /\ [][Next]_vars

-----------------------------------------------------------------------------
(* The string codec and sizeof_uleb128 on their own inputs: a              *)
(* DalvikStringItem over chosen bytes whose value is read and set, and     *)
(* sizeof_uleb128 called on chosen values.                                 *)

MaxCodecLen == 3               \* the string data has up to MaxCodecLen bytes

\* The bytes the string data is made of: NUL, an ASCII letter, continuation
\* bytes, the lead bytes of two- and three-byte sequences, one of no
\* sequence.
CodecBytes == { 0, 65, 128, 130, 169, 172, 192, 195, 226, 240 }

CodecInputs ==
    UNION { [1..n -> CodecBytes] : n \in 0..MaxCodecLen }

\* The DalvikStringItem load gives for the string data b at offset 0.
StringItemOf(b) ==
    [lazy |-> FALSE,
     raw_item |-> [offset |-> 0, size |-> sizeof_uleb128(IntLimbs(Len(b))) + Len(b),
                   data |-> WriteUleb128(Len(b)) \o b,
                   utf16_size |-> Len(b), string_data |-> b],
     string_id |-> DalvikStringID(NewDexFile(<< >>, FALSE), 0, StringIDStructSize,
                                  0, 0),
     _value |-> << >>]

\* 2^k for k below 16.
RECURSIVE Pow2(_)
Pow2(k) == IF k = 0 THEN 1 ELSE 2 * Pow2(k - 1)

\* The limbs of 2^k, of 2^k - 1 and of 2^k + 1.
LimbsPow2(k) ==
    [i \in 1..NLimbs |-> IF i = (k \div 16) + 1 THEN Pow2(k % 16) ELSE 0]

LimbsPow2Minus1(k) ==
    [i \in 1..NLimbs |-> IF i < (k \div 16) + 1 THEN 65535
                         ELSE IF i = (k \div 16) + 1 THEN Pow2(k % 16) - 1 ELSE 0]

LimbsPow2Plus1(k) ==
    IF k = 0 THEN [LimbsPow2(1) EXCEPT ![1] = 2]
    ELSE [LimbsPow2(k) EXCEPT ![1] = @ + 1]

\* The values sizeof_uleb128 is called on: 0, and around every power of two
\* up to 2^MaxBits - 1.
UlebInputs ==
    { LimbsPow2(k) : k \in 0..(MaxBits - 1) }
    \cup { LimbsPow2Minus1(k) : k \in 0..MaxBits }
    \cup { LimbsPow2Plus1(k) : k \in 0..(MaxBits - 1) }

\* -v - 1, the bitwise complement of v.
Complement(v) == [i \in 1..NLimbs |-> 65535 - v[i]]

\* The values sizeof_sleb128 is called on: those of UlebInputs that are
\* non-negative as signed values of MaxBits bits, and their complements.
SlebInputs ==
    { v \in UlebInputs : v[(MaxBits - 1) \div 16 + 1] < Pow2((MaxBits - 1) % 16)
                         /\ \A i \in ((MaxBits - 1) \div 16 + 2)..NLimbs : v[i] = 0 }
    \cup { Complement(v) : v \in
             { w \in UlebInputs : w[(MaxBits - 1) \div 16 + 1] < Pow2((MaxBits - 1) % 16)
                                  /\ \A i \in ((MaxBits - 1) \div 16 + 2)..NLimbs :
                                        w[i] = 0 } }

-----------------------------------------------------------------------------
(* Encoded values (DalvikEncodedValue).                                     *)

VALUE_BYTE == 0
VALUE_SHORT == 2
VALUE_CHAR == 3
VALUE_INT == 4
VALUE_LONG == 6
VALUE_FLOAT == 16
VALUE_DOUBLE == 17
VALUE_METHOD_TYPE == 21
VALUE_METHOD_HANDLE == 22
VALUE_STRING == 23
VALUE_TYPE == 24
VALUE_FIELD == 25
VALUE_METHOD == 26
VALUE_ENUM == 27
VALUE_ARRAY == 28
VALUE_ANNOTATION == 29
VALUE_NULL == 30
VALUE_BOOLEAN == 31

\* The members of the enumeration: DalvikValueFormats(x) raises ValueError
\* for any other x.
DalvikValueFormats ==
    { VALUE_BYTE, VALUE_SHORT, VALUE_CHAR, VALUE_INT, VALUE_LONG, VALUE_FLOAT,
      VALUE_DOUBLE, VALUE_METHOD_TYPE, VALUE_METHOD_HANDLE, VALUE_STRING,
      VALUE_TYPE, VALUE_FIELD, VALUE_METHOD, VALUE_ENUM, VALUE_ARRAY,
      VALUE_ANNOTATION, VALUE_NULL, VALUE_BOOLEAN }

\* The kinds decode_value reads with read_uint32.
IndexFormats ==
    { VALUE_METHOD_TYPE, VALUE_METHOD_HANDLE, VALUE_STRING, VALUE_TYPE,
      VALUE_FIELD, VALUE_METHOD, VALUE_ENUM }

\* A decoded value: an int, a bool, None, or, for the eight-byte and the
\* floating-point reads, the bytes the number is unpacked from.
Decoded(type, int, bool, raw) ==
    [exc |-> "", type |-> type, int |-> int, bool |-> bool, raw |-> raw]

DecodeFails(exc) ==
    [exc |-> exc, type |-> "", int |-> 0, bool |-> FALSE, raw |-> << >>]

\* stream.read_int8() / read_int16() of the little-endian stream at off.
ReadSInt(d, off, n) ==
    IF ReadUInt(d, off, n, LITTLE_ENDIAN) >= Pow2(8 * n - 1)
    THEN ReadUInt(d, off, n, LITTLE_ENDIAN) - 2 * Pow2(8 * n - 1)
    ELSE ReadUInt(d, off, n, LITTLE_ENDIAN)

\* The fixed-width read decode_value makes for value_format on the stream
\* over the item's data, the lead byte read.
DecodeRead(d, value_format, n) ==
    IF ~CanRead(d, 1, n) THEN DecodeFails("EndOfStream")
    ELSE IF value_format \in { VALUE_BYTE, VALUE_SHORT }
         THEN Decoded("int", ReadSInt(d, 1, n), FALSE, << >>)
    ELSE IF value_format \in { VALUE_LONG, VALUE_FLOAT, VALUE_DOUBLE }
         THEN Decoded(IF value_format = VALUE_LONG THEN "int" ELSE "float",
                      0, FALSE, Slice(d, 1, 1 + n))
    ELSE Decoded("int", ReadUInt(d, 1, n, LITTLE_ENDIAN), FALSE, << >>)

\* The number of bytes decode_value reads for value_format.
ReadWidth(value_format) ==
    IF value_format = VALUE_BYTE THEN 1
    ELSE IF value_format \in { VALUE_SHORT, VALUE_CHAR } THEN 2
    ELSE IF value_format \in { VALUE_LONG, VALUE_DOUBLE } THEN 8
    ELSE 4

\* The branches of decode_value.
DecodeFormat(d, value_format, value_arg) ==
    IF value_format \in { VALUE_ARRAY, VALUE_ANNOTATION }
    THEN DecodeFails("NameError")
    ELSE IF value_format = VALUE_NULL THEN Decoded("NoneType", 0, FALSE, << >>)
    ELSE IF value_format = VALUE_BOOLEAN
         THEN Decoded("bool", 0, value_arg # 0, << >>)
    ELSE DecodeRead(d, value_format, ReadWidth(value_format))

\* DalvikEncodedValue.decode_value on the item's data d.
decode_value(d) ==
    IF ~CanRead(d, 0, 1) THEN DecodeFails("EndOfStream")
    ELSE IF BitAnd(d[1], 31) \notin DalvikValueFormats THEN DecodeFails("ValueError")
    ELSE DecodeFormat(d, BitAnd(d[1], 31), BitAnd(d[1], 31) \div 32)

\* cls(offset, size, data): the dataclass fields and, by __post_init__,
\* the decoded value.
DalvikEncodedValueOf(self, offset, size, d, value) ==
    IF value.exc # "" THEN Raise(self, value.exc, NoCode)
    ELSE Ok(self, [offset |-> offset, size |-> size, data |-> d, value |-> value])

\* The size from_stream computes for the lead byte value_id, the clone of
\* the stream standing at off: [ok, size].
EncodedSizeAnnotation(d, off, type_idx) ==
    IF ~type_idx.ok \/ ~ReadUleb128(d, off + type_idx.size).ok
    THEN [ok |-> FALSE, size |-> 0]
    ELSE [ok |-> TRUE,
          size |-> sizeof_uleb128(IntLimbs(type_idx.value))
                   + ReadUleb128(d, off + type_idx.size).value]

EncodedSize(d, off, value_id) ==
    IF BitAnd(value_id, 31) = VALUE_ARRAY
    THEN [ok |-> ReadUleb128(d, off).ok, size |-> ReadUleb128(d, off).value]
    ELSE IF BitAnd(value_id, 31) = VALUE_ANNOTATION
         THEN EncodedSizeAnnotation(d, off, ReadUleb128(d, off))
    ELSE [ok |-> TRUE, size |-> (value_id \div 32) + 1]

\* from_stream from "total_size = size + 1" on.
FromStreamSized(self, offset, s) ==
    IF ~s.ok THEN Raise(self, "EndOfStream", NoCode)
    ELSE DalvikEncodedValueOf(self, offset, s.size + 1,
                              Slice(self.data, offset, offset + s.size + 1),
                              decode_value(Slice(self.data, offset,
                                                 offset + s.size + 1)))

\* from_stream once read_uint8 gave value_id and moved the stream.
FromStreamLead(self, offset, value_id) ==
    IF BitAnd(value_id, 31) \notin DalvikValueFormats
    THEN Raise(self, "ValueError", NoCode)
    ELSE FromStreamSized(self, offset,
                         EncodedSize(self.data, offset + 1, value_id))

\* DalvikEncodedValue.from_stream(self.stream)
from_stream(self) ==
    IF ~CanRead(self.data, self.stream.pos, 1) THEN Raise(self, "EndOfStream", NoCode)
    ELSE FromStreamLead(StreamSeek(self, self.stream.pos + 1), self.stream.pos,
                        self.data[self.stream.pos + 1])

\* The encoded values from_stream is called on: a lead byte of every
\* value_type of the enumeration and of one outside it, with every
\* value_arg, after EncodedPad bytes and before none or all of
\* EncodedPayload.
EncodedPad == << 31, 63, 30 >>
EncodedPayload == << 2, 1, 255, 128, 5, 6, 7, 136, 9 >>

EncodedLeads ==
    { value_type + 32 * value_arg :
        value_type \in DalvikValueFormats \cup { 1 }, value_arg \in 0..7 }

EncodedInputs ==
    { [kind |-> "encoded", lead |-> lead, pos |-> pos,
       bytes |-> SubSeq(EncodedPad, 1, pos) \o << lead >> \o tail] :
        lead \in EncodedLeads, pos \in { 0, Len(EncodedPad) },
        tail \in { << >>, EncodedPayload } }

InitPure ==
    /\ \/ \E b \in CodecInputs :
             /\ IsView([NewDexFile(<< >>, FALSE) EXCEPT
                           !.strings = << StringItemOf(b) >>])
             /\ fixture = [kind |-> "codec", bytes |-> b]
       \/ \E v \in UlebInputs :
             /\ IsView(NewDexFile(<< >>, FALSE))
             /\ fixture = [kind |-> "uleb", value |-> v]
       \/ \E v \in SlebInputs :
             /\ IsView(NewDexFile(<< >>, FALSE))
             /\ fixture = [kind |-> "sleb", value |-> v]
       \/ \E e \in EncodedInputs :
             /\ IsView(StreamSeek(NewDexFile(e.bytes, FALSE), e.pos))
             /\ fixture = e
    /\ last = NoCall
    /\ phase = "fresh"
    /\ only_pool_ok = TRUE
    /\ on_entry = [pos |-> 0, flags |-> 0]
    /\ tasks = << >>

\* The end of "x = item.value" once the getter decoded v.
ValueGetResult(self, v) ==
    IF v.exc # "" THEN Raise(self, v.exc, NoCode)
    ELSE Ok([self EXCEPT !.strings[1] = ValueGot(@, v)], v.val)

\* The end of "item.value = value" once the setter encoded e.
ValueSetResult(self, e) ==
    IF e.exc # "" THEN Raise(self, e.exc, NoCode)
    ELSE Ok([self EXCEPT !.strings[1] = ValueSet(@, e)], << >>)

\* x = item.value
CallValueGet ==
    /\ fixture.kind = "codec"
    /\ Call("value.get", 0, ValueGetResult(Self, StringValue(strings[1])))

\* item.value = x, for the x the getter returned last.
CallValueSet ==
    /\ fixture.kind = "codec"
    /\ last.op = "value.get" /\ last.out.ok
    /\ Call("value.set", last.out.val,
            ValueSetResult(Self, Mutf8Encode(last.out.val, << >>)))

\* The strings the setter is given: the empty one, one-, two- and three-byte
\* code points, and one above 0xFFFF.
AssignedValues == { << >>, << 66 >>, << 233, 8364 >>, << 65536 >> }

\* item.value = s, for a chosen s.
CallValueAssign ==
    /\ fixture.kind = "codec"
    /\ \E s \in AssignedValues :
           Call("value.assign", s, ValueSetResult(Self, Mutf8Encode(s, << >>)))

\* sizeof_uleb128(v)
CallSizeofUleb128 ==
    /\ fixture.kind = "uleb"
    /\ Call("sizeof_uleb128", fixture.value,
            Ok(Self, sizeof_uleb128(fixture.value)))

\* sizeof_sleb128(v)
CallSizeofSleb128 ==
    /\ fixture.kind = "sleb"
    /\ Call("sizeof_sleb128", fixture.value,
            Ok(Self, sizeof_sleb128(fixture.value)))

\* DalvikEncodedValue.from_stream(stream)
CallFromStream ==
    /\ fixture.kind = "encoded"
    /\ Call("from_stream", 0, from_stream(Self))

NextPure ==
    \/ CallValueGet
    \/ CallValueSet
    \/ CallValueAssign
    \/ CallSizeofUleb128
    \/ CallSizeofSleb128
    \/ CallFromStream

SpecPure == InitPure /\ [][NextPure]_vars

-----------------------------------------------------------------------------
(* Two load_async calls on the stream of a parsed view.  load_async runs    *)
(* load in a thread (asyncio.to_thread), so the calls the two loads make    *)
(* on the shared stream interleave; every stream call is one step.          *)

\* The layouts of the files the loads run on, and the strings loaded.
AsyncLayouts == { "noparams", "strs" }
AsyncStringIds == 0..(MaxStringId + 1)

\* The view parse_dex built over the file of f, the stream moved to f.pos.
ParsedView(f) == StreamSeek(parse_dex(NewDexFile(FileOf(f), FALSE)).self, f.pos)

AsyncInputs ==
    { f \in [kind : { "async" }, layout : AsyncLayouts, big : BOOLEAN,
              corrupt : { "none" }, reseal : { FALSE },
              pos : { 4 * k : k \in 0..MaxSeek },
              first : AsyncStringIds, second : AsyncStringIds] :
        /\ f.first < f.second
        /\ parse_dex(NewDexFile(FileOf(f), FALSE)).ok
        /\ f.second < Len(ParsedView(f).strings) }

\* A load call about to start on the handle of string number k.
NewTask(k) ==
    [pc |-> "tell", k |-> k, pos |-> 0, offset |-> 0,
     utf16_size |-> [ok |-> TRUE, value |-> 0, size |-> 0],
     data |-> << >>, item_data |-> << >>, exc |-> "", item |-> None]

InitAsync ==
    /\ \E f \in AsyncInputs :
           /\ IsView(ParsedView(f))
           /\ fixture = f
           /\ tasks = << NewTask(f.first), NewTask(f.second) >>
    /\ last = NoCall
    /\ phase = "fresh"
    /\ only_pool_ok = TRUE
    /\ on_entry = [pos |-> 0, flags |-> 0]

\* self.string_id.string_data_off of the handle task t loads.
TaskDataOff(t) == strings[tasks[t].k + 1].string_id.string_data_off

\* A step of task t: its locals become those of task, the stream moves to
\* pos, and nothing else of the view changes.
TaskStep(t, task, pos) ==
    /\ tasks' = [tasks EXCEPT ![t] = task]
    /\ stream' = [stream EXCEPT !.pos = pos]
    /\ UNCHANGED << data, no_lazy_load, section_flags, header, strings, types,
                    protos, fields, methods, last, fixture, phase,
                    only_pool_ok, on_entry >>

\* pos = stream.tell()
TaskTell(t) ==
    /\ tasks[t].pc = "tell"
    /\ TaskStep(t, [tasks[t] EXCEPT !.pc = "seek", !.pos = stream.pos], stream.pos)

\* stream.seek(self.string_id.string_data_off)
TaskSeek(t) ==
    /\ tasks[t].pc = "seek"
    /\ TaskStep(t, [tasks[t] EXCEPT !.pc = "offset"], TaskDataOff(t))

\* offset = stream.tell()
TaskOffset(t) ==
    /\ tasks[t].pc = "offset"
    /\ TaskStep(t, [tasks[t] EXCEPT !.pc = "read_uleb128", !.offset = stream.pos],
                stream.pos)

\* utf16_size = stream.read_uleb128(); running off the end raises and ends
\* the load.
TaskReadUleb128Of(t, leb) ==
    IF ~leb.ok
    THEN TaskStep(t, [tasks[t] EXCEPT !.pc = "raised", !.exc = "EndOfStream"],
                  Len(data))
    ELSE TaskStep(t, [tasks[t] EXCEPT !.pc = "read", !.utf16_size = leb],
                  stream.pos + leb.size)

TaskReadUleb128(t) ==
    /\ tasks[t].pc = "read_uleb128"
    /\ TaskReadUleb128Of(t, ReadUleb128(data, stream.pos))

\* data = stream.read(utf16_size)
TaskRead(t) ==
    /\ tasks[t].pc = "read"
    /\ TaskStep(t, [tasks[t] EXCEPT
                      !.pc = "seekpeek",
                      !.data = Slice(data, stream.pos,
                                     stream.pos + tasks[t].utf16_size.value)],
                stream.pos + Len(Slice(data, stream.pos,
                                       stream.pos + tasks[t].utf16_size.value)))

\* item_data = stream.seekpeek(string_data_off, leb128_size + utf16_size),
\* which leaves the stream where it was.
TaskSeekpeek(t) ==
    /\ tasks[t].pc = "seekpeek"
    /\ TaskStep(t, [tasks[t] EXCEPT
                      !.pc = "restore",
                      !.item_data =
                          Slice(data, TaskDataOff(t),
                                TaskDataOff(t)
                                + sizeof_uleb128(IntLimbs(tasks[t].utf16_size.value))
                                + tasks[t].utf16_size.value)],
                stream.pos)

\* stream.seek(pos)
TaskRestore(t) ==
    /\ tasks[t].pc = "restore"
    /\ TaskStep(t, [tasks[t] EXCEPT !.pc = "return"], tasks[t].pos)

\* return DalvikStringItem(DalvikStringData(...), self.string_id)
TaskReturn(t) ==
    /\ tasks[t].pc = "return"
    /\ TaskStep(t, [tasks[t] EXCEPT
                      !.pc = "done",
                      !.item =
                          [lazy |-> FALSE,
                           raw_item |->
                               [offset |-> tasks[t].offset,
                                size |-> sizeof_uleb128(
                                             IntLimbs(tasks[t].utf16_size.value))
                                         + Len(tasks[t].data),
                                data |-> tasks[t].item_data,
                                utf16_size |-> tasks[t].utf16_size.value,
                                string_data |-> tasks[t].data],
                           string_id |-> strings[tasks[t].k + 1].string_id,
                           _value |-> << >>]],
                stream.pos)

NextAsync ==
    \E t \in 1..2 :
        \/ TaskTell(t)
        \/ TaskSeek(t)
        \/ TaskOffset(t)
        \/ TaskReadUleb128(t)
        \/ TaskRead(t)
        \/ TaskSeekpeek(t)
        \/ TaskRestore(t)
        \/ TaskReturn(t)

SpecAsync == InitAsync /\ [][NextAsync]_vars

-----------------------------------------------------------------------------
(* Properties of the header checks.                                        *)

\* The last call raised InvalidDalvikHeader with this code.
FailedWith(code) ==
    ~last.out.ok /\ last.out.exc = "InvalidDalvikHeader" /\ last.out.code = code

\* The header invariants, on the bytes d of a file.  The byte order of the
\* file is the one its endian tag at offset 40 spells.
FileIsBig(d) == Slice(d, 40, 44) = << 18, 52, 86, 120 >>
FileIsLittle(d) == Slice(d, 40, 44) = << 120, 86, 52, 18 >>
FileField(d, off) ==
    read_uint32(d, off, IF FileIsBig(d) THEN BIG_ENDIAN ELSE LITTLE_ENDIAN)

FileHeaderValid(d) ==
    /\ Len(d) >= HeaderStructSize
    /\ Slice(d, 0, 4) = MagicPrefix
    /\ d[8] = 0
    /\ FileField(d, 8) = adler32(Slice(d, 12, Len(d)))
    /\ FileField(d, 36) = HeaderStructSize
    /\ FileIsBig(d) \/ FileIsLittle(d)
    /\ ULt(FileField(d, 64), SizeLimit)
    /\ ULt(FileField(d, 72), SizeLimit)
    /\ FileField(d, 104) % 4 = 0

\* The same invariants, on the fields of a DalvikHeaderItem h parsed from d.
HeaderItemValid(h, d) ==
    /\ SubSeq(h.raw_item.magic, 1, 4) = MagicPrefix
    /\ h.raw_item.magic[8] = 0
    /\ h.raw_item.checksum = adler32(Slice(d, 12, Len(d)))
    /\ h.checksum = h.raw_item.checksum
    /\ h.raw_item.header_size = HeaderStructSize
    /\ h.raw_item.endian_tag \in { TagBig, TagLittle }
    /\ ULt(h.raw_item.type_ids_size, SizeLimit)
    /\ ULt(h.raw_item.proto_ids_size, SizeLimit)
    /\ h.raw_item.data_size % 4 = 0

C2_CorruptionGivesItsCode ==
    (last.op = "parse_dex" /\ ~fixture.reseal) =>
        /\ fixture.corrupt \in { "magic", "magic_nul" } =>
               FailedWith(INVALID_MAGIC_BYTES)
        /\ fixture.corrupt = "checksum" => FailedWith(INVALID_CHECKSUM)
        /\ fixture.corrupt = "endian_tag" => FailedWith(INVALID_ENDIAN_TAG)

\* parse_dex ran on the file whose byte 7 was replaced by 0x01.
C2_Witness ==
    /\ last.op = "parse_dex" /\ ~fixture.reseal /\ fixture.corrupt = "magic_nul"
    /\ data[8] = 1 /\ FailedWith(INVALID_MAGIC_BYTES)

C4_HeaderByteOrderIsStreamByteOrder ==
    (last.op = "parse_dex_prologue" /\ last.out.ok) =>
        /\ header # None
        /\ header.byte_order = stream.byteorder
        /\ stream.byteorder = IF fixture.big THEN BIG_ENDIAN ELSE LITTLE_ENDIAN

\* A valid big-endian file went through parse_dex_prologue.
C4_Witness ==
    /\ last.op = "parse_dex_prologue" /\ last.out.ok
    /\ fixture.big /\ FileIsBig(data) /\ stream.byteorder = BIG_ENDIAN

-----------------------------------------------------------------------------
(* Properties of the progress mask and of the pool parsers.                *)

Implies(flags, a, b) == HasFlag(flags, a) => HasFlag(flags, b)

DependencyOrder(flags) ==
    /\ Implies(flags, FLAG_PARSED_STRINGS, FLAG_PARSED_HEADER)
    /\ Implies(flags, FLAG_PARSED_TYPES, FLAG_PARSED_STRINGS)
    /\ Implies(flags, FLAG_PARSED_PROTOS, FLAG_PARSED_TYPES)
    /\ Implies(flags, FLAG_PARSED_FIELDS, FLAG_PARSED_TYPES)
    /\ Implies(flags, FLAG_PARSED_METHODS, FLAG_PARSED_PROTOS)

\* C5: in every state reachable by public calls, failing ones included, the
\* progress mask respects the dependency order (STRINGS implies HEADER,
\* TYPES implies STRINGS, PROTOS and FIELDS imply TYPES, METHODS implies
\* PROTOS), and no call clears a bit that was set.
C5_MaskOrderedAndMonotone ==
    /\ [](DependencyOrder(section_flags))
    /\ [][BitAnd(section_flags', section_flags) = section_flags]_vars

\* A call failed on a view that had made calls before, leaving the mask at
\* HEADER, STRINGS and TYPES.
C5_Witness ==
    /\ section_flags = FLAG_PARSED_HEADER + FLAG_PARSED_STRINGS + FLAG_PARSED_TYPES
    /\ ~last.out.ok /\ phase = "later"

\* The pool of the view v that a pool parser names.
PoolOf(v, op) ==
    CASE op = "parse_strings" -> v.strings
      [] op = "parse_types" -> v.types
      [] op = "parse_protos" -> v.protos
      [] op = "parse_fields" -> v.fields
      [] op = "parse_methods" -> v.methods

\* The size the file's header gives for that pool.
HeaderSizeOf(d, op) ==
    CASE op = "parse_strings" -> FileField(d, 56)
      [] op = "parse_types" -> FileField(d, 64)
      [] op = "parse_protos" -> FileField(d, 72)
      [] op = "parse_fields" -> FileField(d, 80)
      [] op = "parse_methods" -> FileField(d, 88)

\* A pool parser called on a fresh view of the same bytes, same mode.
OnFreshView(op) ==
    CASE op = "parse_strings" -> parse_strings(NewDexFile(data, no_lazy_load))
      [] op = "parse_types" -> parse_types(NewDexFile(data, no_lazy_load))
      [] op = "parse_protos" -> parse_protos(NewDexFile(data, no_lazy_load))
      [] op = "parse_fields" -> parse_fields(NewDexFile(data, no_lazy_load))
      [] op = "parse_methods" -> parse_methods(NewDexFile(data, no_lazy_load))

\* C6 as stated: a single pool parser on a fresh view of a well-formed file
\* returns a pool of the header's size, equal to the pool of that name
\* parse_dex builds from the same bytes.
C6_SingleParserEqualsParseDex ==
    (phase = "first" /\ WellFormed(fixture) /\ last.op \in PoolParsers) =>
        /\ last.out.ok
        /\ Len(last.out.val) = HeaderSizeOf(data, last.op)
        /\ parse_dex(NewDexFile(data, no_lazy_load)).ok
        /\ last.out.val = PoolOf(parse_dex(NewDexFile(data, no_lazy_load)).self,
                                 last.op)

\* parse_protos was the first call on a view of a well-formed file that has a
\* proto with parameters.
C6_Witness ==
    /\ phase = "first" /\ WellFormed(fixture) /\ fixture.layout = "min"
    /\ last.op = "parse_protos"

Pools == << strings, types, protos, fields, methods >>

\* C7 as stated: when a pool parser is called twice in a row, the second
\* call has the outcome of the first and changes neither the mask nor the
\* stored pools.
C7_PoolParsersIdempotent ==
    [][(last.op \in PoolParsers /\ last'.op = last.op) =>
          /\ last'.out = last.out
          /\ section_flags' = section_flags
          /\ Pools' = Pools]_vars

\* A pool parser was called at least twice on a view.
C7_Witness ==
    phase = "later" /\ last.op \in PoolParsers /\ only_pool_ok

\* C8 as stated: for a well-formed file, after any sequence of successful
\* pool-parser calls, a pool parser returns the pool it returns on a fresh
\* view.
C8_SameAsOnFreshView ==
    (WellFormed(fixture) /\ only_pool_ok /\ last.op \in PoolParsers
     /\ OnFreshView(last.op).ok)
        => last.out.val = OnFreshView(last.op).val

\* parse_types returned on a view whose earlier calls were successful pool
\* parsers and whose STRINGS bit was set.
C8_Witness ==
    /\ WellFormed(fixture) /\ only_pool_ok /\ phase = "later"
    /\ last.op = "parse_types" /\ HasFlag(section_flags, FLAG_PARSED_STRINGS)

\* C9 as stated: parse_dex on a fresh view of a well-formed file succeeds,
\* in either mode.
C9_ParseDexSucceeds ==
    (phase = "first" /\ WellFormed(fixture) /\ last.op = "parse_dex")
        => last.out.ok

\* parse_dex was the first call, in lazy mode, on a well-formed file that
\* has a proto with parameters_off # 0.
C9_Witness ==
    /\ phase = "first" /\ WellFormed(fixture) /\ fixture.layout = "min"
    /\ last.op = "parse_dex" /\ ~no_lazy_load

-----------------------------------------------------------------------------
(* Properties of the items of a returned pool.  The file's layout is the   *)
(* ground truth for what the items should hold.                            *)

StringsPoolValid(pool) ==
    \A i \in 1..Len(pool) : pool[i].string_id.id_number = i - 1

TypesPoolValid(pool, l) ==
    \A i \in 1..Len(pool) :
        /\ pool[i].raw_item.id_number = i - 1
        /\ pool[i].raw_item.descriptor_idx = l.types[i]
        /\ ULt(pool[i].raw_item.descriptor_idx, Len(strings))
        /\ pool[i].descriptor = strings[pool[i].raw_item.descriptor_idx + 1]

\* The parameters of a proto item p whose type list holds the type indices
\* params.
ParametersValid(p, params, l) ==
    /\ p.parameters # None /\ p.parameter_list # None
    /\ Len(p.parameters.raw_item.entries) = Len(params)
    /\ Len(p.parameters.types) = Len(params)
    /\ Len(p.parameter_list.list) = Len(params)
    /\ \A k \in 1..Len(params) :
          /\ p.parameters.raw_item.entries[k].id_number = params[k]
          /\ ULt(params[k], Len(types))
          /\ p.parameters.types[k] = types[params[k] + 1]
          /\ p.parameter_list.list[k] = l.strs[l.types[params[k] + 1] + 1]

ProtosPoolValid(pool, l) ==
    \A i \in 1..Len(pool) :
        /\ pool[i].raw_item.id_number = i - 1
        /\ pool[i].raw_item.shorty_idx = l.protos[i].shorty
        /\ pool[i].raw_item.return_type_idx = l.protos[i].ret
        /\ ULt(pool[i].raw_item.shorty_idx, Len(strings))
        /\ pool[i].shorty = strings[pool[i].raw_item.shorty_idx + 1]
        /\ ULt(pool[i].raw_item.return_type_idx, Len(types))
        /\ pool[i].return_type = types[pool[i].raw_item.return_type_idx + 1]
        /\ (pool[i].raw_item.parameters_off = 0) = ~l.protos[i].has
        /\ IF pool[i].raw_item.parameters_off = 0
           THEN pool[i].parameters = None /\ pool[i].parameter_list = None
           ELSE ParametersValid(pool[i], l.protos[i].params, l)

FieldsPoolValid(pool, l) ==
    \A i \in 1..Len(pool) :
        /\ pool[i].raw_item.id_number = i - 1
        /\ pool[i].raw_item.class_idx = l.fields[i].cls
        /\ pool[i].raw_item.type_idx = l.fields[i].typ
        /\ pool[i].raw_item.name_idx = l.fields[i].name
        /\ ULt(pool[i].raw_item.class_idx, Len(types))
        /\ pool[i].class_def = types[pool[i].raw_item.class_idx + 1]
        /\ ULt(pool[i].raw_item.type_idx, Len(types))
        /\ pool[i].type = types[pool[i].raw_item.type_idx + 1]
        /\ ULt(pool[i].raw_item.name_idx, Len(strings))
        /\ pool[i].name = strings[pool[i].raw_item.name_idx + 1]

MethodsPoolValid(pool, l) ==
    \A i \in 1..Len(pool) :
        /\ pool[i].raw_item.id_number = i - 1
        /\ pool[i].raw_item.class_idx = l.methods[i].cls
        /\ pool[i].raw_item.proto_idx = l.methods[i].proto
        /\ pool[i].raw_item.name_idx = l.methods[i].name
        /\ ULt(pool[i].raw_item.class_idx, Len(types))
        /\ pool[i].class_def = types[pool[i].raw_item.class_idx + 1]
        /\ ULt(pool[i].raw_item.proto_idx, Len(protos))
        /\ pool[i].proto = protos[pool[i].raw_item.proto_idx + 1]
        /\ ULt(pool[i].raw_item.name_idx, Len(strings))
        /\ pool[i].name = strings[pool[i].raw_item.name_idx + 1]

\* C10: when a pool parser returns a pool, item i has id_number i, every
\* index it carries is below the size of the view's pool it points into and
\* the reference stored in the item is that pool's item at the index; a
\* proto has parameters and parameter_list absent exactly when
\* parameters_off = 0, and else parameter_list[k] is the descriptor of the
\* type the k-th entry of its type list names.
C10_ReturnedItemsValid ==
    last.out.ok =>
        /\ last.op \in { "parse_strings", "load_all_strings" } =>
               StringsPoolValid(last.out.val)
        /\ last.op = "parse_types" =>
               TypesPoolValid(last.out.val, LayoutOf(fixture.layout))
        /\ last.op = "parse_protos" =>
               ProtosPoolValid(last.out.val, LayoutOf(fixture.layout))
        /\ last.op = "parse_fields" =>
               FieldsPoolValid(last.out.val, LayoutOf(fixture.layout))
        /\ last.op = "parse_methods" =>
               MethodsPoolValid(last.out.val, LayoutOf(fixture.layout))

\* parse_protos returned both protos of a file whose second proto has a type
\* list, with the descriptor of its one parameter.
C10_Witness ==
    /\ last.op = "parse_protos" /\ last.out.ok /\ Len(last.out.val) = 2
    /\ last.out.val[2].raw_item.parameters_off # 0
    /\ last.out.val[2].parameter_list = [list |-> << StrL >>]

-----------------------------------------------------------------------------
(* Properties of files with an empty pool.                                 *)

\* The pool parsers that depend on the pool a pool parser names.
Dependents(op) ==
    CASE op = "parse_strings" -> { "parse_types", "parse_protos", "parse_fields",
                                   "parse_methods" }
      [] op = "parse_types" -> { "parse_protos", "parse_fields", "parse_methods" }
      [] op = "parse_protos" -> { "parse_methods" }
      [] OTHER -> { }

\* The pool parsers that have a prerequisite pool of size 0 in the file d.
DependOnEmpty(d) ==
    UNION { Dependents(op) : op \in { p \in PoolParsers : HeaderSizeOf(d, p) = 0 } }

FlagOf(op) ==
    CASE op = "parse_strings" -> FLAG_PARSED_STRINGS
      [] op = "parse_types" -> FLAG_PARSED_TYPES
      [] op = "parse_protos" -> FLAG_PARSED_PROTOS
      [] op = "parse_fields" -> FLAG_PARSED_FIELDS
      [] op = "parse_methods" -> FLAG_PARSED_METHODS

\* C12 as stated: whenever a pool parser returns without error, its own bit
\* is set in the progress mask, also when the pool it returns is empty.
C12_ParserSetsItsBit ==
    (last.op \in PoolParsers /\ last.out.ok) =>
        HasFlag(section_flags, FlagOf(last.op))

\* parse_types returned an empty pool on a fresh view of a valid file that
\* has no strings and no types.
C12_Witness ==
    /\ phase = "first" /\ fixture.layout = "empty" /\ fixture.corrupt = "none"
    /\ last.op = "parse_types" /\ last.out.ok /\ last.out.val = << >>

-----------------------------------------------------------------------------
(* Properties of lazy and loaded strings.                                  *)

\* The string items a type item, a proto item and the items of a pool of
\* fields or methods refer to.
StringsOfType(t) == { t.descriptor }

StringsOfProto(p) ==
    { p.shorty, p.return_type.descriptor }
    \cup (IF p.parameters = None THEN { }
          ELSE { p.parameters.types[k].descriptor :
                   k \in 1..Len(p.parameters.types) })

StringsOfField(f) == { f.name, f.class_def.descriptor, f.type.descriptor }

StringsOfMethod(m) ==
    { m.name, m.class_def.descriptor } \cup StringsOfProto(m.proto)

\* Every string item the view holds, in its string pool or in an item of
\* another pool.
StringsOfView ==
    { strings[i] : i \in 1..Len(strings) }
    \cup UNION { StringsOfType(types[i]) : i \in 1..Len(types) }
    \cup UNION { StringsOfProto(protos[i]) : i \in 1..Len(protos) }
    \cup UNION { StringsOfField(fields[i]) : i \in 1..Len(fields) }
    \cup UNION { StringsOfMethod(methods[i]) : i \in 1..Len(methods) }

\* C13: after parse_dex returns on a view built with no_lazy_load, every
\* element of the string pool and every string a type, proto, field or
\* method item refers to is a loaded DalvikStringItem; after parse_dex
\* returns in the default mode every one of them is a LazyDalvikString.
C13_ParseDexModeDecidesStrings ==
    (last.op = "parse_dex" /\ last.out.ok) =>
        \A s \in StringsOfView : s.lazy = ~no_lazy_load

\* parse_dex returned with no_lazy_load set on a file with six strings, and
\* its second method's proto has a parameter with a loaded descriptor.
C13_Witness ==
    /\ last.op = "parse_dex" /\ last.out.ok /\ no_lazy_load
    /\ Len(strings) = 6 /\ Len(methods) = 2
    /\ methods[2].proto.parameters # None
    /\ ~methods[2].proto.parameters.types[1].descriptor.lazy

\* C14: get_string_by_id(i) as the first call on a view of a valid file,
\* with 0 <= i < string_ids_size, returns a LazyDalvikString with
\* id_number i whose load gives the item load_all_strings gives at index i;
\* after the call the types, protos, fields and methods pools are empty and
\* their bits are not set.
C14_GetStringByIdOnUnparsedView ==
    (phase = "first" /\ last.op = "get_string_by_id" /\ fixture.corrupt = "none"
     /\ ULt(last.arg, HeaderSizeOf(data, "parse_strings"))) =>
        /\ last.out.ok
        /\ last.out.val.lazy
        /\ last.out.val.string_id.id_number = last.arg
        /\ load(last.out.val, Self).ok
        /\ load_all_strings(NewDexFile(data, no_lazy_load)).ok
        /\ load(last.out.val, Self).val
              = load_all_strings(NewDexFile(data, no_lazy_load)).val[last.arg + 1]
        /\ types = << >> /\ protos = << >> /\ fields = << >> /\ methods = << >>
        /\ \A op \in PoolParsers \ { "parse_strings" } :
               ~HasFlag(section_flags, FlagOf(op))

\* get_string_by_id(1) was the first call on a view of a big-endian file and
\* returned the handle of string 1.
C14_Witness ==
    /\ phase = "first" /\ last.op = "get_string_by_id" /\ last.arg = 1
    /\ fixture.corrupt = "none" /\ fixture.big /\ last.out.ok
    /\ last.out.val.string_id.id_number = 1
    /\ load(last.out.val, Self).val.raw_item.string_data = StrL

\* C15 as stated: get_string_by_id as the first call on a view reads only
\* the string_id entry asked for: when it returns, the view's string pool
\* is still empty and the STRINGS bit is still unset.
C15_GetStringByIdCollectsNothing ==
    (phase = "first" /\ last.op = "get_string_by_id" /\ last.out.ok) =>
        /\ strings = << >>
        /\ ~HasFlag(section_flags, FLAG_PARSED_STRINGS)

\* get_string_by_id(0) was the first call on a view of a valid file with six
\* strings, and returned.
C15_Witness ==
    /\ phase = "first" /\ last.op = "get_string_by_id" /\ last.arg = 0
    /\ fixture.corrupt = "none" /\ HeaderSizeOf(data, "parse_strings") = 6
    /\ last.out.ok

-----------------------------------------------------------------------------
(* Properties of the stream position.                                      *)

\* C16: whenever LazyDalvikString.load(stream) returns, the stream is at the
\* position it had before the call, for every handle and every position.
C16_LoadRestoresPosition ==
    [][(last'.op = "load" /\ last'.out.ok) => stream'.pos = stream.pos]_vars

\* load returned the second string of a file on a stream that stands at a
\* non-zero offset.
C16_Witness ==
    /\ last.op = "load" /\ last.arg = 1 /\ last.out.ok
    /\ last.out.val.raw_item.string_data = StrL
    /\ stream.pos # 0

\* C17 as stated: whenever a public pool parser returns, the view's stream
\* is at the position it had before the call, whatever the state of the
\* view, an unparsed view with its stream at a non-zero offset included.
C17_PoolParsersKeepPosition ==
    [][(last'.op \in PoolParsers /\ last'.out.ok) => stream'.pos = stream.pos]_vars

\* parse_strings returned on a view that was unparsed and had its stream at
\* a non-zero offset when the call was made.
C17_Witness ==
    /\ last.op = "parse_strings" /\ last.out.ok
    /\ on_entry.flags = 0 /\ on_entry.pos # 0

-----------------------------------------------------------------------------
(* Properties of loaded strings.                                           *)

\* The items the last call loaded.
LoadedItems ==
    IF ~last.out.ok THEN { }
    ELSE IF last.op = "load" THEN { last.out.val }
    ELSE IF last.op = "load_all_strings"
         THEN { last.out.val[i] : i \in 1..Len(last.out.val) }
    ELSE { }

\* What C18 says of one loaded item, on the bytes d of the file whose
\* string number id_number has the MUTF-8 bytes str.
LoadedItemValid(item, d, str) ==
    /\ item.raw_item.offset = item.string_id.string_data_off
    /\ item.raw_item.utf16_size = Utf16Len(str)
    /\ item.raw_item.size
          = sizeof_uleb128(IntLimbs(item.raw_item.utf16_size)) + item.raw_item.utf16_size
    /\ item.raw_item.data
          = [k \in 1..item.raw_item.size |-> d[item.raw_item.offset + k]]
    /\ item.raw_item.string_data
          = [k \in 1..item.raw_item.utf16_size |->
                d[item.raw_item.offset
                  + sizeof_uleb128(IntLimbs(item.raw_item.utf16_size)) + k]]
    /\ load(LazyDalvikString(item.string_id), Self).ok
    /\ load(LazyDalvikString(item.string_id), Self).val = item

-----------------------------------------------------------------------------
(* Properties of the string codec and of sizeof_uleb128.                   *)

\* C19 as stated: for string data the getter decodes without failing,
\* setting the decoded value back stores exactly the bytes that were
\* decoded.
C19_Mutf8RoundTrip ==
    (fixture.kind = "codec" /\ last.op = "value.set" /\ last.out.ok) =>
        strings[1].raw_item.string_data = fixture.bytes

\* The getter decoded C0 80, the MUTF-8 form of U+0000, and the value was
\* set back.
C19_Witness ==
    /\ fixture.kind = "codec" /\ fixture.bytes = << 192, 128 >>
    /\ last.op = "value.set" /\ last.out.ok /\ last.arg = << 0 >>

\* The number of bits of a 16-bit limb and of a value held as limbs.
RECURSIVE BitLen16(_)
BitLen16(x) == IF x = 0 THEN 0 ELSE 1 + BitLen16(x \div 2)

BitLen(v) ==
    IF IsZero(v) THEN 0
    ELSE LET top == CHOOSE i \in 1..NLimbs :
                        v[i] # 0 /\ \A j \in (i + 1)..NLimbs : v[j] = 0
         IN 16 * (top - 1) + BitLen16(v[top])

\* C20: for every v >= 0 of up to 64 bits, sizeof_uleb128(v) is the number
\* of bytes of the ULEB128 encoding of v: one byte for every 7 bits of v,
\* and one byte for 0.
C20_SizeofUleb128IsEncodedLength ==
    (fixture.kind = "uleb" /\ last.op = "sizeof_uleb128") =>
        last.out.val = IF BitLen(fixture.value) = 0 THEN 1
                       ELSE (BitLen(fixture.value) + 6) \div 7

\* sizeof_uleb128 was called on 2^63, a value of 64 bits, and gave 10.
C20_Witness ==
    /\ fixture.kind = "uleb" /\ last.op = "sizeof_uleb128"
    /\ fixture.value = LimbsPow2(63) /\ BitLen(fixture.value) = 64
    /\ last.out.val = 10

\* The number of bytes of the SLEB128 encoding of the signed value v: one
\* for every 7 bits of v and its sign bit.
SlebLength(v) ==
    (BitLen(IF IsNegative(v) THEN Complement(v) ELSE v) \div 7) + 1

\* C21 as stated: for every signed 64-bit v, sizeof_sleb128(v) is the number
\* of bytes of the SLEB128 encoding of v, and so sizeof_sleb128(v) =
\* sizeof_sleb128(-v - 1) for every v >= 0.
C21_SizeofSleb128IsEncodedLength ==
    (fixture.kind = "sleb" /\ last.op = "sizeof_sleb128") =>
        /\ last.out.val = SlebLength(fixture.value)
        /\ last.out.val = sizeof_sleb128(Complement(fixture.value))

\* sizeof_sleb128 was called on 2^32.
C21_Witness ==
    /\ fixture.kind = "sleb" /\ last.op = "sizeof_sleb128"
    /\ fixture.value = LimbsPow2(32) /\ SlebLength(fixture.value) = 5

-----------------------------------------------------------------------------
(* Properties of the type list of a proto.                                 *)

\* The protos with a type list among those the last call returned.
ProtosWithParameters ==
    IF last.op = "parse_protos" /\ last.out.ok
    THEN { last.out.val[i] : i \in { k \in 1..Len(last.out.val) :
                                       last.out.val[k].parameters # None } }
    ELSE { }

\* C22 as stated: the type-list raw item of a proto with parameters_off # 0
\* has size 4 + 2 * length, and its data is the file bytes
\* [parameters_off, parameters_off + 4 + 2 * length).
C22_TypeListSpansItsBytes ==
    \A p \in ProtosWithParameters :
        /\ p.parameters.raw_item.offset = p.raw_item.parameters_off
        /\ p.parameters.raw_item.size = 4 + 2 * p.parameters.raw_item.length
        /\ p.parameters.raw_item.data
             = [k \in 1..(4 + 2 * p.parameters.raw_item.length) |->
                   data[p.raw_item.parameters_off + k]]

\* parse_protos returned a proto whose type list has one entry.
C22_Witness ==
    /\ last.op = "parse_protos" /\ last.out.ok /\ Len(last.out.val) = 2
    /\ last.out.val[2].parameters # None
    /\ last.out.val[2].parameters.raw_item.length = 1
    /\ Len(last.out.val[2].parameters.raw_item.entries) = 1

\* The lead byte the last from_stream call found at the stream's position.
LeadOnEntry == data[on_entry.pos + 1]

\* from_stream was called on an encoded value and returned an item.
FromStreamReturned ==
    /\ fixture.kind = "encoded"
    /\ last.op = "from_stream"
    /\ last.out.ok

\* C23: an encoded value whose value_type is BOOLEAN decodes to the bool
\* value_arg & 1, value_arg being the high three bits of the lead byte: the
\* lead byte 0x3F gives true and 0x1F gives false.
C23_BooleanIsValueArg ==
    (FromStreamReturned /\ BitAnd(LeadOnEntry, 31) = VALUE_BOOLEAN) =>
        /\ last.out.val.value.type = "bool"
        /\ last.out.val.value.bool = (BitAnd(LeadOnEntry \div 32, 1) = 1)

\* from_stream returned the item of the lead byte 0x3F, decoded to False.
C23_Witness ==
    /\ FromStreamReturned
    /\ LeadOnEntry = 63
    /\ last.out.val.value.type = "bool"
    /\ ~last.out.val.value.bool

\* The payload length of the encoded value with the lead byte value_id:
\* value_arg + 1 for the integer, float and index kinds, 0 for NULL and
\* BOOLEAN.
PayloadSize(value_id) ==
    IF BitAnd(value_id, 31) \in { VALUE_NULL, VALUE_BOOLEAN } THEN 0
    ELSE (value_id \div 32) + 1

\* C24: the item from_stream returns for an integer, float, index, NULL or
\* BOOLEAN value has for offset the stream position of the lead byte, for
\* size 1 + the payload length, and for data the size bytes from offset on.
C24_FromStreamSpansItsBytes ==
    FromStreamReturned =>
        /\ last.out.val.offset = on_entry.pos
        /\ last.out.val.size = 1 + PayloadSize(LeadOnEntry)
        /\ last.out.val.data
              = Slice(data, on_entry.pos, on_entry.pos + 1 + PayloadSize(LeadOnEntry))

\* from_stream returned the item of a NULL value at a non-zero offset with
\* the byte after the lead byte in it.
C24_Witness ==
    /\ FromStreamReturned
    /\ BitAnd(LeadOnEntry, 31) = VALUE_NULL
    /\ on_entry.pos > 0
    /\ last.out.val.size = 2
    /\ Len(last.out.val.data) = 2

\* Which rules the bytes d of a file break, in the order of the claim: the
\* endian tag, the magic prefix, the magic NUL, the checksum, header_size,
\* type_ids_size, proto_ids_size, data_size.
RulesBroken(d) ==
    << ~(FileIsBig(d) \/ FileIsLittle(d)),
       Slice(d, 0, 4) # MagicPrefix,
       d[8] # 0,
       FileField(d, 8) # adler32(Slice(d, 12, Len(d))),
       FileField(d, 36) # HeaderStructSize,
       UGe(FileField(d, 64), SizeLimit),
       UGe(FileField(d, 72), SizeLimit),
       FileField(d, 104) % 4 # 0 >>

RuleCodes ==
    << INVALID_ENDIAN_TAG, INVALID_MAGIC_BYTES, INVALID_MAGIC_BYTES,
       INVALID_CHECKSUM, INVALID_HEADER_SIZE, INVALID_TYPES_SIZE,
       INVALID_PROTOS_SIZE, INVALID_DATA_SIZE >>

NumberBroken(d) == Cardinality({ k \in 1..8 : RulesBroken(d)[k] })

\* The first rule d breaks.
FirstBroken(d) ==
    CHOOSE k \in 1..8 :
        RulesBroken(d)[k] /\ \A j \in 1..(k - 1) : ~RulesBroken(d)[j]

C26_ReadAfterSetGivesSetValue ==
    [][(fixture.kind = "codec" /\ last.op = "value.assign" /\ last.out.ok) =>
          /\ Mutf8Decode(strings[1].raw_item.string_data, << >>)
                = [exc |-> "", val |-> last.arg]
          /\ last'.op = "value.get" => (last'.out.ok /\ last'.out.val = last.arg)
      ]_<< last.op, strings >>

\* The value was read as "A", then set to "B", and the read after that
\* returned "A" while the stored bytes are those of "B".
C26_Witness ==
    /\ fixture.kind = "codec" /\ fixture.bytes = << 65 >>
    /\ last.op = "value.get" /\ last.out.ok /\ last.out.val = << 65 >>
    /\ strings[1].raw_item.string_data = << 66 >>
    /\ strings[1]._value = << 65 >>

-----------------------------------------------------------------------------
(* Properties of the progress mask and of repeated calls.                   *)

\* C27: in every reachable state a bit set in the progress mask means the
\* view holds the data of that section: with the HEADER bit the header is
\* present, and with the bit of a pool the pool holds as many items as the
\* header's size field for it says.
C27_SetBitMeansDataHeld ==
    /\ HasFlag(section_flags, FLAG_PARSED_HEADER) => header # None
    /\ \A op \in PoolParsers :
           HasFlag(section_flags, FlagOf(op)) =>
               Len(PoolOf(Self, op)) = HeaderSizeOf(data, op)

\* parse_strings returned the two handles of a well-formed file and set the
\* STRINGS bit, as the first call on the view; the view's pool is empty.
C27_Witness ==
    /\ phase = "first" /\ WellFormed(fixture) /\ fixture.layout = "min"
    /\ last.op = "parse_strings" /\ last.out.ok
    /\ Len(last.out.val) = HeaderSizeOf(data, "parse_strings")
    /\ HasFlag(section_flags, FLAG_PARSED_STRINGS)
    /\ strings = << >>

\* C28: a header parse that fails leaves the view as it was: after
\* parse_header, parse_dex_prologue or parse_dex failed as the first call on
\* a view, the HEADER bit is unset and the header is absent, also when the
\* failure is that of version bytes that are no digits.
C28_FailedHeaderParseLeavesView ==
    (phase = "first" /\ ~last.out.ok
     /\ last.op \in { "parse_header", "parse_dex_prologue", "parse_dex" }) =>
        /\ ~HasFlag(section_flags, FLAG_PARSED_HEADER)
        /\ header = None

\* parse_dex failed with ValueError as the first call on a view of the file
\* whose version bytes are "abc", the checksum recomputed.
C28_Witness ==
    /\ phase = "first" /\ last.op = "parse_dex" /\ ~last.out.ok
    /\ last.out.exc = "ValueError"
    /\ fixture.corrupt = "version" /\ fixture.reseal
    /\ header = None
    /\ HasFlag(section_flags, FLAG_PARSED_HEADER)

\* The view holds the header and the five pools in full, as after parse_dex.
ViewIsFull ==
    /\ header # None
    /\ \A op \in PoolParsers : Len(PoolOf(Self, op)) = HeaderSizeOf(data, op)

\* C29: on a well-formed file parse_dex and load_all_strings can be
\* repeated: once one of them returned on a view that holds the header and
\* the pools, a parse_dex or a load_all_strings called next succeeds, leaves the stored pools as they were, and
\* load_all_strings returns what it returns on a fresh view, with and
\* without no_lazy_load.
C29_ParseDexRepeatable ==
    [][(/\ WellFormed(fixture)
        /\ last.op \in { "parse_dex", "load_all_strings" } /\ last.out.ok
        /\ ViewIsFull
        /\ last'.op \in { "parse_dex", "load_all_strings" }) =>
          /\ last'.out.ok
          /\ Pools' = Pools
          /\ last'.op = "load_all_strings" =>
                last'.out.val
                  = load_all_strings(NewDexFile(data, no_lazy_load)).val]_vars

\* With no_lazy_load set, parse_dex had filled the five pools of a
\* well-formed file with strings, and a later parse_dex failed on the loaded
\* string items.
C29_Witness ==
    /\ WellFormed(fixture) /\ fixture.layout = "min" /\ no_lazy_load
    /\ phase = "later" /\ last.op = "parse_dex" /\ ~last.out.ok
    /\ last.out.exc = "AttributeError"
    /\ ViewIsFull
    /\ \A i \in 1..Len(strings) : ~strings[i].lazy

-----------------------------------------------------------------------------
(* Properties of concurrent loads.                                          *)

\* Both loads are over.
TasksOver ==
    /\ fixture.kind = "async"
    /\ \A t \in 1..2 : tasks[t].pc \in { "done", "raised" }

\* What task t returns when it runs alone on the view.
LoadedAlone(t) == load(strings[tasks[t].k + 1], StreamSeek(Self, fixture.pos)).val

\* C30: on a parsed view, two loads of different lazy strings that run
\* concurrently on the view's stream, their seek and read steps interleaved
\* in any way, each return the item they return when run alone, and when
\* both are over the stream is where it was before.
C30_ConcurrentLoadsAsAlone ==
    TasksOver =>
        /\ \A t \in 1..2 : tasks[t].pc = "done" /\ tasks[t].item = LoadedAlone(t)
        /\ stream.pos = fixture.pos

\* Both loads returned, the first with the bytes of the other string, and
\* the stream was left at the second string's data.
C30_Witness ==
    /\ TasksOver
    /\ tasks[1].pc = "done" /\ tasks[2].pc = "done"
    /\ tasks[1].item.raw_item.offset = TaskDataOff(2)
    /\ tasks[1].item # LoadedAlone(1)
    /\ stream.pos # fixture.pos
====
